---------------------------- MODULE Spec2Model ----------------------------
(***************************************************************************)
(* A model of the Contract Intelligence API: the retrieval-and-synthesis   *)
(* engine (app/rag.py), the risk detector (app/auditor.py), the position   *)
(* index (app/pdf_processor.py) and the request handlers (app/routes.py).  *)
(*                                                                         *)
(* Text is a sequence of one-character strings.  Offsets are Python's:     *)
(* 0-based, ranges half-open [start, end).  Relevance scores are kept as   *)
(* integers, ten times the code's value (3 -> 30, 1.5 -> 15, 0.1 -> 1).    *)
(***************************************************************************)
EXTENDS Integers, Sequences, FiniteSets, TLC

VARIABLES
    documents,   \* documents table: document_id -> name of its text_content, or Absent
    extracted,   \* extracted_fields table: document_id -> fields record, or Absent
    counters,    \* MetricsCollector.counters
    config,      \* SimpleRAG's configuration, fixed at construction
    resp,        \* the response in flight to the caller, or Idle
    last_audit,  \* per document, the findings of the latest audit since the store last changed
    ck,          \* chunk_text harness: its arguments and its result
    pg,          \* get_page_from_position harness: its arguments and its results
    run          \* harness of the other functions: the arguments of a call and its result

vars == <<documents, extracted, counters, config, resp, last_audit, ck, pg, run>>

-----------------------------------------------------------------------------
(* Python's str operations, on sequences of characters.                    *)

Min2(a, b) == IF a <= b THEN a ELSE b
Max2(a, b) == IF a >= b THEN a ELSE b

SetMin(S) == CHOOSE x \in S : \A y \in S : x <= y
SetMax(S) == CHOOSE x \in S : \A y \in S : x >= y

\* s[a:b]; a negative index counts from the end, an index past the end is the end.
Slice(s, a, b) ==
    LET n  == Len(s)
        a1 == IF a < 0 THEN Max2(n + a, 0) ELSE Min2(a, n)
        b1 == IF b < 0 THEN Max2(n + b, 0) ELSE Min2(b, n)
    IN  IF a1 >= b1 THEN <<>> ELSE SubSeq(s, a1 + 1, b1)

\* s.find(sub, from): the lowest 0-based index >= from where sub occurs, or -1.
find(s, sub, from) ==
    LET n == Len(s)
        m == Len(sub)
        S == {i \in from..(n - m) : s[i + 1] = sub[1] /\ SubSeq(s, i + 1, i + m) = sub}
    IN  IF m = 0 THEN (IF from <= n THEN from ELSE -1)
        ELSE IF S = {} THEN -1 ELSE SetMin(S)

\* s.rfind(sub): the highest index where sub occurs, or -1.
rfind(s, sub) ==
    LET n == Len(s)
        m == Len(sub)
        S == {i \in 0..(n - m) : s[i + 1] = sub[1] /\ SubSeq(s, i + 1, i + m) = sub}
    IN  IF S = {} THEN -1 ELSE SetMax(S)

\* sub in s
contains(s, sub) == find(s, sub, 0) # -1

RECURSIVE CountFrom(_, _, _)
CountFrom(P, m, from) ==
    LET Q == {p \in P : p >= from}
    IN  IF Q = {} THEN 0 ELSE 1 + CountFrom(P, m, SetMin(Q) + m)

\* s.count(sub): the number of non-overlapping occurrences, left to right.
count(s, sub) ==
    LET n == Len(s)
        m == Len(sub)
        P == {i \in 0..(n - m) : s[i + 1] = sub[1] /\ SubSeq(s, i + 1, i + m) = sub}
    IN  CountFrom(P, m, 0)

UpperSeq == <<"A","B","C","D","E","F","G","H","I","J","K","L","M",
              "N","O","P","Q","R","S","T","U","V","W","X","Y","Z">>
LowerSeq == <<"a","b","c","d","e","f","g","h","i","j","k","l","m",
              "n","o","p","q","r","s","t","u","v","w","x","y","z">>
UpperSet == {UpperSeq[i] : i \in 1..Len(UpperSeq)}
LowerSet == {LowerSeq[i] : i \in 1..Len(LowerSeq)}
DigitSeq == <<"0","1","2","3","4","5","6","7","8","9">>
DigitSet == {DigitSeq[i] : i \in 1..Len(DigitSeq)}
ToLower  == [c \in UpperSet |-> LowerSeq[CHOOSE i \in 1..Len(UpperSeq) : UpperSeq[i] = c]]
\* str.isspace characters of the texts modelled
Whitespace == {" ", "\n", "\t"}

LowerChar(c) == IF c \in UpperSet THEN ToLower[c] ELSE c

\* Characters outside ASCII are written by their code points.  U+0130 is the capital I
\* with a dot above; its lower case is two characters, i and the combining dot U+0307.
DottedI      == "U+0130"
CombiningDot == "U+0307"

\* the text as re.IGNORECASE compares it with a pattern written in lower case: every
\* character by its simple lower case, which for the dotted capital I is i
ignore_case(s) ==
    IF Len(s) = 0 THEN <<>>
    ELSE SubSeq([i \in 1..Len(s) |-> IF s[i] = DottedI THEN "i" ELSE LowerChar(s[i])],
                1, Len(s))

\* s.lower() of a text that holds a dotted capital I
RECURSIVE LowerWide(_)
LowerWide(s) ==
    IF Len(s) = 0 THEN <<>>
    ELSE IF Len(s) = 1
    THEN (IF s[1] = DottedI THEN <<"i", CombiningDot>> ELSE <<LowerChar(s[1])>>)
    ELSE LowerWide(SubSeq(s, 1, Len(s) \div 2))
         \o LowerWide(SubSeq(s, Len(s) \div 2 + 1, Len(s)))

\* s.lower()
lower(s) ==
    IF Len(s) = 0 THEN <<>>
    ELSE IF \E i \in 1..Len(s) : s[i] = DottedI THEN LowerWide(s)
    ELSE SubSeq([i \in 1..Len(s) |-> LowerChar(s[i])], 1, Len(s))

\* s.strip()
strip(s) ==
    LET K == {i \in 1..Len(s) : s[i] \notin Whitespace}
    IN  IF K = {} THEN <<>> ELSE SubSeq(s, SetMin(K), SetMax(K))

RECURSIVE Ascending(_, _, _)
\* the elements of S between lo and hi, in increasing order
Ascending(S, lo, hi) ==
    IF lo > hi THEN <<>>
    ELSE IF lo = hi THEN (IF lo \in S THEN <<lo>> ELSE <<>>)
    ELSE Ascending(S, lo, (lo + hi) \div 2) \o Ascending(S, (lo + hi) \div 2 + 1, hi)

\* s.split(): the maximal runs of non-whitespace characters, in order.
split(s) ==
    LET n      == Len(s)
        Starts == {i \in 1..n : s[i] \notin Whitespace /\ (i = 1 \/ s[i - 1] \in Whitespace)}
        Ends   == {i \in 1..n : s[i] \notin Whitespace /\ (i = n \/ s[i + 1] \in Whitespace)}
        starts == Ascending(Starts, 1, n)
        ends   == Ascending(Ends, 1, n)
    IN  IF Starts = {} THEN <<>>
        ELSE SubSeq([k \in 1..Len(starts) |-> SubSeq(s, starts[k], ends[k])], 1, Len(starts))

\* s.split(c) for a one-character separator: the pieces between separators, empty ones kept.
split_on(s, c) ==
    LET n    == Len(s)
        seps == Ascending({i \in 1..n : s[i] = c}, 1, n)
        k    == Len(seps)
        Cut(j) == IF j = 0 THEN 0 ELSE IF j = k + 1 THEN n + 1 ELSE seps[j]
    IN  SubSeq([j \in 1..(k + 1) |-> SubSeq(s, Cut(j - 1) + 1, Cut(j) - 1)], 1, k + 1)

RECURSIVE join(_, _)
\* sep.join(parts)
join(sep, parts) ==
    IF Len(parts) = 0 THEN <<>>
    ELSE IF Len(parts) = 1 THEN parts[1]
    ELSE join(sep, SubSeq(parts, 1, Len(parts) - 1)) \o sep \o parts[Len(parts)]

\* s repeated n times
RECURSIVE Repeat(_, _)
Repeat(s, n) ==
    IF n <= 0 THEN <<>>
    ELSE IF n = 1 THEN s
    ELSE Repeat(s, n \div 2) \o Repeat(s, n - n \div 2)

\* the characters of s as one string (what a response shows)
RECURSIVE Str(_)
Str(s) ==
    CASE Len(s) = 0 -> ""
      [] Len(s) = 1 -> s[1]
      [] Len(s) = 2 -> s[1] \o s[2]
      [] Len(s) = 3 -> s[1] \o s[2] \o s[3]
      [] Len(s) = 4 -> s[1] \o s[2] \o s[3] \o s[4]
      [] OTHER -> Str(SubSeq(s, 1, Len(s) \div 2)) \o Str(SubSeq(s, Len(s) \div 2 + 1, Len(s)))

\* [F(x) for x in xs]
Map(xs, F(_)) ==
    IF Len(xs) = 0 THEN <<>> ELSE SubSeq([i \in 1..Len(xs) |-> F(xs[i])], 1, Len(xs))

RECURSIVE Flatten(_)
\* the concatenation of a sequence of sequences
Flatten(xss) ==
    IF Len(xss) = 0 THEN <<>>
    ELSE Flatten(SubSeq(xss, 1, Len(xss) - 1)) \o xss[Len(xss)]

RECURSIVE Decimal(_)
\* str(n), n >= 0
Decimal(n) == IF n < 10 THEN <<DigitSeq[n + 1]>>
              ELSE Decimal(n \div 10) \o <<DigitSeq[(n % 10) + 1]>>

\* a local variable: Body with value as its argument
Bind(value, Body(_)) == Body(value)

\* None, or a value
None    == [some |-> FALSE]
Some(v) == [some |-> TRUE, v |-> v]

-----------------------------------------------------------------------------
(* SimpleRAG.chunk_text (app/rag.py)                                       *)

MAX_TEXT_SIZE == 500000
max_chunks    == 1000

\* The loop body with a sign fault, start = end + overlap: the fault that the coverage
\* property of chunk_text has to detect.
ChunkLoopBodySkipping(text, chunk_size, overlap, st) ==
    IF st.done THEN st
    ELSE IF ~(st.start < Len(text) /\ st.chunk_count < max_chunks)
    THEN [st EXCEPT !.done = TRUE]
    ELSE
        LET start       == st.start
            end0        == Min2(start + chunk_size, Len(text))
            chunk0      == Slice(text, start, end0)
            break_point == Max2(rfind(chunk0, <<".">>), rfind(chunk0, <<"\n">>))
            end         == IF end0 < Len(text) /\ 2 * break_point > chunk_size
                           THEN start + break_point + 1
                           ELSE end0
            chunk       == [text |-> Slice(text, start, end), start |-> start, end |-> end]
            next        == end + overlap
        IN  [chunks      |-> Append(st.chunks, chunk),
             start       |-> next,
             chunk_count |-> st.chunk_count + 1,
             done        |-> next <= start]

\* A fault that the progress of the chunks has to detect: the loop goes on when the next
\* start does not exceed the start of the chunk made.
ChunkLoopBodyUnchecked(text, chunk_size, overlap, st) ==
    IF st.done THEN st
    ELSE IF ~(st.start < Len(text) /\ st.chunk_count < max_chunks)
    THEN [st EXCEPT !.done = TRUE]
    ELSE
        LET start       == st.start
            end0        == Min2(start + chunk_size, Len(text))
            chunk0      == Slice(text, start, end0)
            last_period == rfind(chunk0, <<".">>)
            last_newline == rfind(chunk0, <<"\n">>)
            break_point == Max2(last_period, last_newline)
            \* break_point > chunk_size * 0.5
            end         == IF end0 < Len(text) /\ 2 * break_point > chunk_size
                           THEN start + break_point + 1
                           ELSE end0
            chunk       == [text |-> Slice(text, start, end), start |-> start, end |-> end]
            next        == end - overlap
        IN  [chunks      |-> Append(st.chunks, chunk),
             start       |-> next,
             chunk_count |-> st.chunk_count + 1,
             done        |-> FALSE]

\* One pass of the while loop of chunk_text, its condition included: st holds the
\* loop's variables (chunks, start, chunk_count) and whether the loop has ended.
ChunkLoopBody(text, chunk_size, overlap, st) ==
    IF st.done THEN st
    ELSE IF ~(st.start < Len(text) /\ st.chunk_count < max_chunks)
    THEN [st EXCEPT !.done = TRUE]
    ELSE
        LET start       == st.start
            end0        == Min2(start + chunk_size, Len(text))
            chunk0      == Slice(text, start, end0)
            last_period == rfind(chunk0, <<".">>)
            last_newline == rfind(chunk0, <<"\n">>)
            break_point == Max2(last_period, last_newline)
            \* break_point > chunk_size * 0.5
            end         == IF end0 < Len(text) /\ 2 * break_point > chunk_size
                           THEN start + break_point + 1
                           ELSE end0
            chunk       == [text |-> Slice(text, start, end), start |-> start, end |-> end]
            next        == end - overlap
        IN  [chunks      |-> Append(st.chunks, chunk),
             start       |-> next,
             chunk_count |-> st.chunk_count + 1,
             \* if start <= chunks[-1][1]: break
             done        |-> next <= start]

\* The loop: the body at most n times (every pass that does not end the loop adds
\* a chunk, so max_chunks + 1 passes always end it).
RECURSIVE ChunkLoop(_, _, _, _, _)
ChunkLoop(text, chunk_size, overlap, st, n) ==
    IF st.done THEN st
    ELSE IF n <= 1 THEN ChunkLoopBody(text, chunk_size, overlap, st)
    ELSE ChunkLoop(text, chunk_size, overlap,
                   ChunkLoop(text, chunk_size, overlap, st, n \div 2),
                   n - n \div 2)

chunk_text(text0, chunk_size, overlap) ==
    LET text == IF Len(text0) > MAX_TEXT_SIZE THEN Slice(text0, 0, MAX_TEXT_SIZE) ELSE text0
        st0  == [chunks |-> <<>>, start |-> 0, chunk_count |-> 0, done |-> FALSE]
    IN  ChunkLoop(text, chunk_size, overlap, st0, max_chunks + 1).chunks

-----------------------------------------------------------------------------
(* get_page_from_position (app/pdf_processor.py)                           *)

RECURSIVE DigitsValue(_)
DigitsValue(d) ==
    IF Len(d) = 0 THEN 0
    ELSE 10 * DigitsValue(SubSeq(d, 1, Len(d) - 1))
         + ((CHOOSE i \in 1..10 : DigitSeq[i] = d[Len(d)]) - 1)

\* int(s): surrounding whitespace and one sign are accepted, then digits only;
\* anything else (the empty string included) raises ValueError.
PyInt(s) ==
    LET t      == strip(s)
        signed == Len(t) > 0 /\ t[1] \in {"+", "-"}
        d      == IF signed THEN Slice(t, 1, Len(t)) ELSE t
        ok     == Len(d) > 0 /\ \A i \in 1..Len(d) : d[i] \in DigitSet
    IN  IF ~ok THEN [raised |-> TRUE, value |-> 0]
        ELSE [raised |-> FALSE,
              value  |-> IF signed /\ t[1] = "-" THEN -DigitsValue(d) ELSE DigitsValue(d)]

page_marker  == <<"-","-","-"," ","P","a","g","e"," ">>
marker_close == <<" ","-","-","-">>

\* The while loop of get_page_from_position from (pos, page_num) on.
RECURSIVE PageLoop(_, _, _, _)
PageLoop(text, char_pos, pos, page_num) ==
    IF ~(pos < char_pos /\ pos < Len(text))
    THEN [raised |-> FALSE, page |-> page_num]
    ELSE
        LET next_marker == find(text, page_marker, pos)
        IN  IF next_marker = -1 \/ next_marker > char_pos
            THEN [raised |-> FALSE, page |-> page_num]
            ELSE
                LET n == PyInt(Slice(text, next_marker + Len(page_marker),
                                     find(text, marker_close, next_marker)))
                IN  IF n.raised
                    THEN [raised |-> TRUE, page |-> page_num]
                    ELSE PageLoop(text, char_pos, next_marker + 1, n.value)

\* A fault that the monotonicity of the page index has to detect: the page is read from
\* the first marker at or after char_pos instead of the last one before it.
get_page_of_next_marker(text, char_pos) ==
    LET next_marker == find(text, page_marker, char_pos)
        n == PyInt(Slice(text, next_marker + Len(page_marker),
                         find(text, marker_close, next_marker)))
    IN  IF next_marker = -1 THEN [raised |-> FALSE, page |-> 1]
        ELSE IF n.raised THEN [raised |-> TRUE, page |-> 1]
        ELSE [raised |-> FALSE, page |-> n.value]

\* The page of char_pos, or raised when int() raises ValueError.
get_page_from_position(text, char_pos) == PageLoop(text, char_pos, 0, 1)

-----------------------------------------------------------------------------
(* Python's re, as far as the repository's patterns use it: a pattern is a  *)
(* sequence of items, matched by backtracking in Python's order of          *)
(* preference (greedy: longest first, lazy: shortest first, alternatives    *)
(* left to right).                                                          *)

Ch(S)    == [t |-> "set", cs |-> S, neg |-> FALSE]         \* [...]
NotCh(S) == [t |-> "set", cs |-> S, neg |-> TRUE]          \* [^...]
\* X{min,max} of a character class X (max = -1: unbounded), greedy or lazy
Rep(S, neg, min, max, lazy) ==
    [t |-> "rep", cs |-> S, neg |-> neg, min |-> min, max |-> max, lazy |-> lazy]
Opt(sub)   == [t |-> "opt", sub |-> sub]                   \* (?:sub)?
Star(sub)  == [t |-> "star", sub |-> sub]                  \* (?:sub)*
Alt(alts)  == [t |-> "alt", alts |-> alts]                 \* (?:a|b|...)
Open(g)    == [t |-> "open", g |-> g]                      \* the ( of group g
Close(g)   == [t |-> "close", g |-> g]                     \* the ) of group g
Eol(multiline) == [t |-> "eol", multiline |-> multiline]   \* $

\* a literal string
Lit(chars) == IF Len(chars) = 0 THEN <<>>
              ELSE SubSeq([i \in 1..Len(chars) |-> Ch({chars[i]})], 1, Len(chars))

NewLine   == {"\n"}
Dot(lazy) == Rep(NewLine, TRUE, 0, -1, lazy)               \* .* or .*?
Spaces(min) == Rep(Whitespace, FALSE, min, -1, FALSE)      \* \s* or \s+
Digits(min, max) == Rep(DigitSet, FALSE, min, max, FALSE)  \* \d{min,max}

InClass(it, c) == IF it.neg THEN c \notin it.cs ELSE c \in it.cs

\* how many characters from offset i on are in the class of it, at most cap (-1: no cap)
RunLen(it, s, i, cap) ==
    LET hi   == IF cap = -1 THEN Len(s) ELSE Min2(Len(s), i + cap)
        Stop == {j \in (i + 1)..hi : ~InClass(it, s[j])}
    IN  IF Stop = {} THEN hi - i ELSE SetMin(Stop) - 1 - i

NoGroups == <<[s |-> -1, e |-> -1], [s |-> -1, e |-> -1]>>
NoMatch  == [ok |-> FALSE, start |-> -1, end |-> -1, groups |-> NoGroups]

\* The match of items at offset i of s that Python's backtracking finds first
\* (end: where it stops; groups: the spans captured), or NoMatch.
RECURSIVE MatchAt(_, _, _, _, _)
MatchAt(items, s, i0, i, groups) ==
    IF Len(items) = 0 THEN [ok |-> TRUE, start |-> i0, end |-> i, groups |-> groups]
    ELSE
      LET it   == Head(items)
          rest == Tail(items)
      IN  CASE it.t = "set" ->
                 IF i < Len(s) /\ InClass(it, s[i + 1])
                 THEN MatchAt(rest, s, i0, i + 1, groups)
                 ELSE NoMatch
            [] it.t = "rep" ->
                 LET len == RunLen(it, s, i, it.max)
                     K   == {k \in it.min..len : MatchAt(rest, s, i0, i + k, groups).ok}
                 IN  IF K = {} THEN NoMatch
                     ELSE MatchAt(rest, s, i0,
                                  i + (IF it.lazy THEN SetMin(K) ELSE SetMax(K)), groups)
            [] it.t = "opt" ->
                 LET r == MatchAt(it.sub \o rest, s, i0, i, groups)
                 IN  IF r.ok THEN r ELSE MatchAt(rest, s, i0, i, groups)
            [] it.t = "star" ->
                 LET r == MatchAt(it.sub \o <<it>> \o rest, s, i0, i, groups)
                 IN  IF r.ok THEN r ELSE MatchAt(rest, s, i0, i, groups)
            [] it.t = "alt" ->
                 LET K == {k \in 1..Len(it.alts) :
                              MatchAt(it.alts[k] \o rest, s, i0, i, groups).ok}
                 IN  IF K = {} THEN NoMatch
                     ELSE MatchAt(it.alts[SetMin(K)] \o rest, s, i0, i, groups)
            [] it.t = "open" ->
                 MatchAt(rest, s, i0, i, [groups EXCEPT ![it.g].s = i])
            [] it.t = "close" ->
                 MatchAt(rest, s, i0, i, [groups EXCEPT ![it.g].e = i])
            [] it.t = "eol" ->
                 IF \/ i = Len(s)
                    \/ (it.multiline /\ i < Len(s) /\ s[i + 1] = "\n")
                    \/ (~it.multiline /\ i = Len(s) - 1 /\ s[Len(s)] = "\n")
                 THEN MatchAt(rest, s, i0, i, groups)
                 ELSE NoMatch

\* re.search(pattern, s[from:]) shifted back: the leftmost match starting at or after from
Search(items, s, from) ==
    Bind({i \in from..Len(s) : MatchAt(items, s, i, i, NoGroups).ok}, LAMBDA Hits :
        IF Hits = {} THEN NoMatch
        ELSE MatchAt(items, s, SetMin(Hits), SetMin(Hits), NoGroups))

\* list(re.finditer(pattern, s)): the successive non-overlapping matches from offset from
RECURSIVE FindIter(_, _, _)
FindIter(items, s, from) ==
    Bind(Search(items, s, from), LAMBDA m :
        IF ~m.ok THEN <<>>
        ELSE <<m>> \o FindIter(items, s, IF m.end > m.start THEN m.end ELSE m.end + 1))

\* m.group(g) as text of s
GroupText(s, m, g) == Slice(s, m.groups[g].s, m.groups[g].e)

-----------------------------------------------------------------------------
(* extract_structured_fields (app/extractor.py): the two fields the risk    *)
(* detector reads, auto_renewal and liability_cap.  The patterns are used   *)
(* with re.IGNORECASE: they are written in lower case and matched against   *)
(* ignore_case(text); a captured group is read from the text itself.       *)

AlnumLower == LowerSet \cup DigitSet
\* ([A-Za-z0-9\s,\.]+?)(?:\.|,|$)  as group 1 and its terminator
ClauseGroup ==
    <<Open(1), Rep(AlnumLower \cup Whitespace \cup {",", "."}, FALSE, 1, -1, TRUE), Close(1),
      Alt(<<Lit(<<".">>), Lit(<<",">>), <<Eol(FALSE)>>>>)>>
SpacesOrColon == Rep(Whitespace \cup {":"}, FALSE, 1, -1, FALSE)   \* [\s:]+

renewal_patterns == <<
    \* auto[-\s]?renew(?:al)?[\s:]+([A-Za-z0-9\s,\.]+?)(?:\.|,|$)
    Lit(<<"a","u","t","o">>) \o <<Rep(Whitespace \cup {"-"}, FALSE, 0, 1, FALSE)>> \o Lit(<<"r","e","n","e","w">>)
        \o <<Opt(Lit(<<"a","l">>)), SpacesOrColon>> \o ClauseGroup,
    \* automatically\s+renew(?:s|ed)?[\s:]+([A-Za-z0-9\s,\.]+?)(?:\.|,|$)
    Lit(<<"a","u","t","o","m","a","t","i","c","a","l","l","y">>) \o <<Spaces(1)>> \o Lit(<<"r","e","n","e","w">>)
        \o <<Opt(<<Alt(<<Lit(<<"s">>), Lit(<<"e","d">>)>>)>>), SpacesOrColon>> \o ClauseGroup,
    \* renew(?:s|ed)?\s+automatically[\s:]+([A-Za-z0-9\s,\.]+?)(?:\.|,|$)
    Lit(<<"r","e","n","e","w">>) \o <<Opt(<<Alt(<<Lit(<<"s">>), Lit(<<"e","d">>)>>)>>), Spaces(1)>>
        \o Lit(<<"a","u","t","o","m","a","t","i","c","a","l","l","y">>) \o <<SpacesOrColon>> \o ClauseGroup >>

\* ([\$£€]?\s*\d+(?:,\d{3})*(?:\.\d{2})?)\s*([A-Z]{3})?
AmountGroups ==
    <<Open(1), Rep({"$"}, FALSE, 0, 1, FALSE), Spaces(0), Digits(1, -1),
      Star(Lit(<<",">>) \o <<Digits(3, 3)>>), Opt(Lit(<<".">>) \o <<Digits(2, 2)>>), Close(1),
      Spaces(0), Opt(<<Open(2), Rep(LowerSet, FALSE, 3, 3, FALSE), Close(2)>>)>>

liability_patterns == <<
    \* liability\s+(?:cap|limit)[\s:]+ ...
    Lit(<<"l","i","a","b","i","l","i","t","y">>) \o <<Spaces(1), Alt(<<Lit(<<"c","a","p">>), Lit(<<"l","i","m","i","t">>)>>), SpacesOrColon>>
        \o AmountGroups,
    \* maximum\s+liability[\s:]+ ...
    Lit(<<"m","a","x","i","m","u","m">>) \o <<Spaces(1)>> \o Lit(<<"l","i","a","b","i","l","i","t","y">>) \o <<SpacesOrColon>> \o AmountGroups >>

\* for pattern in patterns: match = re.search(...); if match: ... break
FirstSearch(patterns, s) ==
    Bind(Map(patterns, LAMBDA pattern : Search(pattern, s, 0)), LAMBDA found :
        LET K == {k \in 1..Len(found) : found[k].ok}
        IN  IF K = {} THEN NoMatch ELSE found[SetMin(K)])

extract_structured_fields(text) ==
    Bind(FirstSearch(renewal_patterns, ignore_case(text)), LAMBDA renewal :
    Bind(FirstSearch(liability_patterns, ignore_case(text)), LAMBDA liability :
        [auto_renewal  |-> IF renewal.ok THEN Some(strip(GroupText(text, renewal, 1))) ELSE None,
         liability_cap |-> IF liability.ok
                           THEN Some([amount   |-> Str(strip(GroupText(text, liability, 1))),
                                      currency |-> IF liability.groups[2].s >= 0
                                                   THEN Str(GroupText(text, liability, 2))
                                                   ELSE "USD"])
                           ELSE None]))

-----------------------------------------------------------------------------
(* The document texts of the model: what extract_text_from_pdf stored,     *)
(* each page preceded by its "--- Page n ---" marker line                  *)
(* (app/pdf_processor.py).                                                 *)

Filler == <<"T","h","e"," ","p","a","r","t","i","e","s"," ","s","h","a","l","l"," ","p","e","r","f","o","r","m"," ","t","h","e","i","r"," ","d","u","t","i","e","s"," ","i","n"," ","g","o","o","d"," ","f","a","i","t","h",".","\n">>

\* a two-page contract, longer than one chunk; marker2 is the marker line of its second page
LongText(marker2) ==
    <<"-","-","-"," ","P","a","g","e"," ","1"," ","-","-","-","\n">> \o <<"T","h","i","s"," ","A","g","r","e","e","m","e","n","t"," ","i","s"," ","g","o","v","e","r","n","e","d"," ","b","y"," ","t","h","e"," ","l","a","w","s"," ","o","f"," ","N","e","w"," ","Y","o","r","k",".","\n">>
    \o Repeat(Filler, 11)
    \o marker2
    \o Repeat(Filler, 6)
    \o <<"T","h","e"," ","s","u","p","p","l","i","e","r"," ","a","c","c","e","p","t","s"," ","u","n","l","i","m","i","t","e","d"," ","l","i","a","b","i","l","i","t","y","."," ","T","h","e"," ","g","o","v","e","r","n","i","n","g"," ","l","a","w"," ","c","l","a","u","s","e"," ","s","u","r","v","i","v","e","s"," ","t","e","r","m","i","n","a","t","i","o","n",".","\n">>
    \o Repeat(Filler, 4)

TextNames == {"example", "renewal", "long", "badmark"}

\* texts without page text: of a PDF without pages, and of white space only (the case
\* the whole-document pass of answer_question is written for)
BlankNames == {"empty", "blank", "blanker"}

\* "short": a one-page document of fewer than 50 characters
Text == [n \in TextNames \cup BlankNames \cup {"short"} |->
    CASE n = "example" ->
           <<"-","-","-"," ","P","a","g","e"," ","1"," ","-","-","-","\n","T","h","i","s"," ","a","u","t","o","-","r","e","n","e","w","s"," ","w","i","t","h"," ","1","0"," ","d","a","y","s"," ","n","o","t","i","c","e",".","\n","-","-","-"," ","P","a","g","e"," ","2"," ","-","-","-","\n","G","o","v","e","r","n","e","d"," ","b","y"," ","N","Y"," ","l","a","w",".">>
      [] n = "renewal" ->
           <<"-","-","-"," ","P","a","g","e"," ","1"," ","-","-","-","\n","T","h","i","s"," ","a","g","r","e","e","m","e","n","t"," ","h","a","s"," ","a","u","t","o","-","r","e","n","e","w","a","l"," ","w","i","t","h"," ","w","r","i","t","t","e","n"," ","n","o","t","i","c","e"," ","o","f"," ","1","0"," ","d","a","y","s",".","\n">>
           \o <<"-","-","-"," ","P","a","g","e"," ","2"," ","-","-","-","\n","G","o","v","e","r","n","e","d"," ","b","y"," ","t","h","e"," ","l","a","w","s"," ","o","f"," ","N","e","w"," ","Y","o","r","k",".">>
      [] n = "long"    -> LongText(<<"-","-","-"," ","P","a","g","e"," ","2"," ","-","-","-","\n">>)
      \* page text that itself holds a marker-like line without a page number
      [] n = "badmark" -> LongText(<<"-","-","-"," ","P","a","g","e"," ","X"," ","-","-","-","\n">>)
      [] n = "short"   -> <<"-","-","-"," ","P","a","g","e"," ","1"," ","-","-","-","\n","G","o","v","e","r","n","e","d"," ","b","y"," ","N","Y"," ","l","a","w",".">>
      [] n = "empty"   -> <<>>
      [] n = "blank"   -> Repeat(<<" ","\n">>, 60)
      [] n = "blanker" -> Repeat(<<" ","\n">>, 5001)]

-----------------------------------------------------------------------------
(* ContractAuditor (app/auditor.py)                                        *)

\* self.risk_patterns, in the order of the dict; matched against text.lower()
risk_patterns == <<
    [name     |-> "auto_renewal_short_notice",
     severity |-> "high",
     \* auto[-\s]?renew(?:al)?.*?(?:notice|written\s+notice).*?(\d+)\s*(?:day|days)
     pattern  |-> Lit(<<"a","u","t","o">>) \o <<Rep(Whitespace \cup {"-"}, FALSE, 0, 1, FALSE)>>
                  \o Lit(<<"r","e","n","e","w">>)
                  \o <<Opt(Lit(<<"a","l">>)), Dot(TRUE),
                       Alt(<<Lit(<<"n","o","t","i","c","e">>), Lit(<<"w","r","i","t","t","e","n">>) \o <<Spaces(1)>> \o Lit(<<"n","o","t","i","c","e">>)>>),
                       Dot(TRUE), Open(1), Digits(1, -1), Close(1), Spaces(0),
                       Alt(<<Lit(<<"d","a","y">>), Lit(<<"d","a","y","s">>)>>)>>],
    [name     |-> "unlimited_liability",
     severity |-> "critical",
     \* (?:unlimited|no\s+limit|without\s+limit).*?liability
     pattern  |-> <<Alt(<<Lit(<<"u","n","l","i","m","i","t","e","d">>),
                          Lit(<<"n","o">>) \o <<Spaces(1)>> \o Lit(<<"l","i","m","i","t">>),
                          Lit(<<"w","i","t","h","o","u","t">>) \o <<Spaces(1)>> \o Lit(<<"l","i","m","i","t">>)>>),
                    Dot(TRUE)>> \o Lit(<<"l","i","a","b","i","l","i","t","y">>)],
    [name     |-> "broad_indemnity",
     severity |-> "high",
     \* indemnif(?:y|ies).*?(?:all|any|any\s+and\s+all).*?(?:loss|damage|claim|liability)
     pattern  |-> Lit(<<"i","n","d","e","m","n","i","f">>)
                  \o <<Alt(<<Lit(<<"y">>), Lit(<<"i","e","s">>)>>), Dot(TRUE),
                       Alt(<<Lit(<<"a","l","l">>), Lit(<<"a","n","y">>),
                             Lit(<<"a","n","y">>) \o <<Spaces(1)>> \o Lit(<<"a","n","d">>) \o <<Spaces(1)>> \o Lit(<<"a","l","l">>)>>),
                       Dot(TRUE),
                       Alt(<<Lit(<<"l","o","s","s">>), Lit(<<"d","a","m","a","g","e">>), Lit(<<"c","l","a","i","m">>), Lit(<<"l","i","a","b","i","l","i","t","y">>)>>)>>],
    [name     |-> "no_termination_right",
     severity |-> "medium",
     \* (?:may\s+not\s+terminate|cannot\s+terminate|no\s+right\s+to\s+terminate)
     pattern  |-> <<Alt(<<Lit(<<"m","a","y">>) \o <<Spaces(1)>> \o Lit(<<"n","o","t">>) \o <<Spaces(1)>> \o Lit(<<"t","e","r","m","i","n","a","t","e">>),
                          Lit(<<"c","a","n","n","o","t">>) \o <<Spaces(1)>> \o Lit(<<"t","e","r","m","i","n","a","t","e">>),
                          Lit(<<"n","o">>) \o <<Spaces(1)>> \o Lit(<<"r","i","g","h","t">>) \o <<Spaces(1)>> \o Lit(<<"t","o">>)
                              \o <<Spaces(1)>> \o Lit(<<"t","e","r","m","i","n","a","t","e">>)>>)>>],
    [name     |-> "exclusive_terms",
     severity |-> "medium",
     \* exclusive.*?(?:vendor|supplier|provider)
     pattern  |-> Lit(<<"e","x","c","l","u","s","i","v","e">>)
                  \o <<Dot(TRUE), Alt(<<Lit(<<"v","e","n","d","o","r">>), Lit(<<"s","u","p","p","l","i","e","r">>), Lit(<<"p","r","o","v","i","d","e","r">>)>>)>>] >>

\* risk_config["check"](match)
RiskCheck(risk, s, m) ==
    IF risk.name = "auto_renewal_short_notice"
    THEN \* int(m.group(1)) < 30 if m.group(1) else False
         Len(GroupText(s, m, 1)) > 0 /\ PyInt(GroupText(s, m, 1)).value < 30
    ELSE TRUE

_get_risk_description(risk_type) ==
    CASE risk_type = "auto_renewal_short_notice" ->
             "Auto-renewal clause with less than 30 days notice period"
      [] risk_type = "unlimited_liability" -> "Unlimited liability clause detected"
      [] risk_type = "broad_indemnity" ->
             "Broad indemnity clause that may expose party to excessive risk"
      [] risk_type = "no_termination_right" ->
             "Clause that restricts or prevents termination rights"
      [] risk_type = "exclusive_terms" ->
             "Exclusive vendor/supplier terms that limit flexibility"
      [] OTHER -> "Potential risk detected in contract"

\* The pattern pass over one catalog entry: a record per accepted match; its
\* page holds what get_page_from_position did (a page, or raised).
PatternFindings(risk, document_id, text) ==
    LET text_lower == lower(text)
        matches    == FindIter(risk.pattern, text_lower, 0)
        accepted   == SelectSeq(matches, LAMBDA m : RiskCheck(risk, text_lower, m))
        Finding(m) ==
            LET start == Max2(0, m.start - 100)
                end   == Min2(Len(text), m.end + 100)
            IN  Bind(get_page_from_position(text, m.start), LAMBDA page :
                [risk_type   |-> risk.name,
                 severity    |-> risk.severity,
                 description |-> _get_risk_description(risk.name),
                 evidence    |-> Str(strip(Slice(text, start, end))),
                 char_range  |-> Some(<<m.start, m.end>>),
                 page        |-> IF page.raised THEN None ELSE Some(page.page),
                 page_raised |-> page.raised,
                 document_id |-> document_id])
    IN  Map(accepted, Finding)

\* (\d+)\s*(?:day|days)
notice_pattern == <<Open(1), Digits(1, -1), Close(1), Spaces(0), Alt(<<Lit(<<"d","a","y">>), Lit(<<"d","a","y","s">>)>>)>>

\* A fault that the concatenation of the passes has to detect: the field pass leaves out
\* the finding of a risk that the pattern pass matches in the text.
FieldFindingsDeduplicated(document_id, text, extracted_fields) ==
    LET text_lower   == lower(text)
        renewal      == extracted_fields.auto_renewal
        \* if extracted.get("auto_renewal"): a non-empty string
        renewal_text == IF renewal.some THEN lower(renewal.v) ELSE <<>>
        short_notice ==
            Bind(Search(notice_pattern, renewal_text, 0), LAMBDA notice_match :
            Bind(PyInt(GroupText(renewal_text, notice_match, 1)).value, LAMBDA days :
            IF /\ renewal.some /\ Len(renewal.v) > 0 /\ notice_match.ok /\ days < 30
               /\ ~Search(risk_patterns[1].pattern, text_lower, 0).ok
            THEN <<[risk_type   |-> "auto_renewal_short_notice",
                    severity    |-> "high",
                    description |-> "Auto-renewal clause requires only " \o Str(Decimal(days))
                                    \o " days notice (recommended: 30+ days)",
                    evidence    |-> Str(renewal.v),
                    char_range  |-> None,
                    page        |-> None,
                    page_raised |-> FALSE,
                    document_id |-> document_id]>>
            ELSE <<>>))
        no_cap ==
            IF /\ ~extracted_fields.liability_cap.some
               /\ contains(text_lower, <<"u","n","l","i","m","i","t","e","d">>)
               /\ contains(text_lower, <<"l","i","a","b","i","l","i","t","y">>)
               /\ ~Search(risk_patterns[2].pattern, text_lower, 0).ok
            THEN <<[risk_type   |-> "unlimited_liability",
                    severity    |-> "critical",
                    description |-> "No liability cap found, potential unlimited liability exposure",
                    evidence    |-> "Unlimited liability clause detected",
                    char_range  |-> None,
                    page        |-> None,
                    page_raised |-> FALSE,
                    document_id |-> document_id]>>
            ELSE <<>>
    IN  short_notice \o no_cap

\* The structured-field pass: the findings drawn from the extracted fields.
FieldFindings(document_id, text, extracted_fields) ==
    LET text_lower   == lower(text)
        renewal      == extracted_fields.auto_renewal
        \* if extracted.get("auto_renewal"): a non-empty string
        renewal_text == IF renewal.some THEN lower(renewal.v) ELSE <<>>
        short_notice ==
            Bind(Search(notice_pattern, renewal_text, 0), LAMBDA notice_match :
            Bind(PyInt(GroupText(renewal_text, notice_match, 1)).value, LAMBDA days :
            IF renewal.some /\ Len(renewal.v) > 0 /\ notice_match.ok /\ days < 30
            THEN <<[risk_type   |-> "auto_renewal_short_notice",
                    severity    |-> "high",
                    description |-> "Auto-renewal clause requires only " \o Str(Decimal(days))
                                    \o " days notice (recommended: 30+ days)",
                    evidence    |-> Str(renewal.v),
                    char_range  |-> None,
                    page        |-> None,
                    page_raised |-> FALSE,
                    document_id |-> document_id]>>
            ELSE <<>>))
        no_cap ==
            IF /\ ~extracted_fields.liability_cap.some
               /\ contains(text_lower, <<"u","n","l","i","m","i","t","e","d">>)
               /\ contains(text_lower, <<"l","i","a","b","i","l","i","t","y">>)
            THEN <<[risk_type   |-> "unlimited_liability",
                    severity    |-> "critical",
                    description |-> "No liability cap found, potential unlimited liability exposure",
                    evidence    |-> "Unlimited liability clause detected",
                    char_range  |-> None,
                    page        |-> None,
                    page_raised |-> FALSE,
                    document_id |-> document_id]>>
            ELSE <<>>
    IN  short_notice \o no_cap

\* ContractAuditor.audit_document: doc and extracted_fields are what
\* get_document and get_extracted_fields return (None when there is no row).
\* raised: get_page_from_position raised, and the exception leaves the method.
audit_document(document_id, doc, extracted_fields) ==
    IF ~doc.some THEN [raised |-> FALSE, findings |-> <<>>]
    ELSE
        LET text     == doc.v
            fields   == IF extracted_fields.some
                        THEN FieldFindings(document_id, text, extracted_fields.v)
                        ELSE <<>>
        IN  Bind(Flatten(Map(risk_patterns,
                             LAMBDA risk : PatternFindings(risk, document_id, text))),
                 LAMBDA pattern :
            IF \E i \in 1..Len(pattern) : pattern[i].page_raised
            THEN [raised |-> TRUE, findings |-> <<>>]
            ELSE [raised |-> FALSE,
                  findings |-> Map(pattern \o fields, LAMBDA f :
                      [risk_type |-> f.risk_type, severity |-> f.severity,
                       description |-> f.description, evidence |-> f.evidence,
                       char_range |-> f.char_range, page |-> f.page,
                       document_id |-> f.document_id])])

-----------------------------------------------------------------------------
(* SimpleRAG.search_relevant_chunks (app/rag.py)                           *)

truncation_notice == <<"\n","\n","[",".",".","."," ","t","e","x","t"," ","t","r","u","n","c","a","t","e","d"," ",".",".",".","]","\n","\n">>

\* the synonyms dict: the terms a query term adds to expanded_terms
synonyms(term) ==
    CASE term = <<"c","o","n","f","i","d","e","n","t","i","a","l","i","t","y">> ->
             {<<"c","o","n","f","i","d","e","n","t","i","a","l">>, <<"c","o","n","f","i","d","e","n","t","i","a","l"," ","i","n","f","o","r","m","a","t","i","o","n">>, <<"n","o","n","-","d","i","s","c","l","o","s","u","r","e">>, <<"n","d","a">>, <<"d","i","s","c","l","o","s","u","r","e">>}
      [] term = <<"c","o","n","f","i","d","e","n","t","i","a","l">> ->
             {<<"c","o","n","f","i","d","e","n","t","i","a","l","i","t","y">>, <<"c","o","n","f","i","d","e","n","t","i","a","l"," ","i","n","f","o","r","m","a","t","i","o","n">>, <<"n","o","n","-","d","i","s","c","l","o","s","u","r","e">>, <<"n","d","a">>}
      [] term = <<"p","a","r","t","y">>     -> {<<"p","a","r","t","i","e","s">>, <<"c","o","m","p","a","n","y">>, <<"c","o","m","p","a","n","i","e","s">>, <<"e","n","t","i","t","y">>, <<"e","n","t","i","t","i","e","s">>}
      [] term = <<"d","a","t","e">>      -> {<<"e","f","f","e","c","t","i","v","e"," ","d","a","t","e">>, <<"e","x","e","c","u","t","i","o","n"," ","d","a","t","e">>, <<"d","a","t","e","d">>}
      [] term = <<"t","e","r","m">>      -> {<<"d","u","r","a","t","i","o","n">>, <<"p","e","r","i","o","d">>, <<"l","e","n","g","t","h">>}
      [] term = <<"l","i","a","b","i","l","i","t","y">> -> {<<"l","i","a","b","i","l","i","t","y"," ","c","a","p">>, <<"l","i","a","b","i","l","i","t","y"," ","l","i","m","i","t">>, <<"m","a","x","i","m","u","m"," ","l","i","a","b","i","l","i","t","y">>}
      [] OTHER -> {}

stop_words == {<<"w","h","a","t">>, <<"i","s">>, <<"a","r","e">>, <<"t","h","e">>, <<"a">>, <<"a","n">>, <<"t","h","i","s">>, <<"t","h","a","t">>, <<"t","h","e","s","e">>, <<"t","h","o","s","e">>}

Range(xs) == {xs[i] : i \in 1..Len(xs)}

RECURSIVE SumOver(_, _)
\* sum(F[x] for x in S)
SumOver(S, F) ==
    IF S = {} THEN 0
    ELSE LET x == CHOOSE y \in S : TRUE IN F[x] + SumOver(S \ {x}, F)

min_chunk_chars == 50

\* the score of one chunk, times ten
ChunkScore(chunk_lower, query_terms, expanded_terms) ==
    LET \* for term in query_terms: score += chunk_lower.count(term) * 3
        exact  == SumOver(1..Len(query_terms),
                          [i \in 1..Len(query_terms) |-> count(chunk_lower, query_terms[i]) * 30])
        \* for term in expanded_terms, not in query_terms: score += count * 1.5
        others == expanded_terms \ Range(query_terms)
        syn    == SumOver(others, [term \in others |-> count(chunk_lower, term) * 15])
        \* bonus for the whole phrase
        phrase == IF Len(query_terms) > 1 /\ contains(chunk_lower, join(<<" ">>, query_terms))
                  THEN 100 ELSE 0
        score  == exact + syn + phrase
    IN  IF /\ score = 0
           /\ Len(query_terms) > 0
           /\ \E i \in 1..Len(query_terms) : contains(chunk_lower, query_terms[i])
        THEN 5
        ELSE score

RECURSIVE SortByScore(_)
\* list.sort(key=score, reverse=True): descending, equal scores keep their order
SortByScore(xs) ==
    IF Len(xs) <= 1 THEN xs
    ELSE LET front == SortByScore(SubSeq(xs, 1, Len(xs) - 1))
             x     == xs[Len(xs)]
             k     == Cardinality({i \in 1..Len(front) : front[i].score >= x.score})
         IN  SubSeq(front, 1, k) \o <<x>> \o SubSeq(front, k + 1, Len(front))

\* the terms of a query that count: longer than two characters
TermsOf(query) == SelectSeq(split(lower(query)), LAMBDA t : Len(t) > 2)

search_relevant_chunks(query, text0, top_k) ==
    IF Len(text0) = 0 \/ Len(strip(text0)) = 0 THEN <<>>
    ELSE
      LET text == IF Len(text0) > MAX_TEXT_SIZE
                  THEN Slice(text0, 0, MAX_TEXT_SIZE \div 2) \o truncation_notice
                       \o Slice(text0, -(MAX_TEXT_SIZE \div 2), Len(text0))
                  ELSE text0
          all_terms      == TermsOf(query)
          expanded_terms == Range(all_terms)
                            \cup UNION {synonyms(all_terms[i]) : i \in 1..Len(all_terms)}
          query_terms    == SelectSeq(all_terms, LAMBDA t : t \notin stop_words)
          Kept(c)        == Len(c.text) > 0 /\ Len(strip(c.text)) >= min_chunk_chars
          Scored(c)      == [text |-> c.text, start |-> c.start, end |-> c.end,
                             score |-> ChunkScore(lower(c.text), query_terms, expanded_terms)]
      IN  Bind(chunk_text(text, 1000, 200), LAMBDA chunks :
          Bind(SortByScore(Map(SelectSeq(chunks, Kept), Scored)), LAMBDA scored_chunks :
              IF Len(scored_chunks) = 0 /\ Len(chunks) > 0
              THEN Map(Slice(chunks, 0, top_k), LAMBDA c :
                       [text |-> c.text, start |-> c.start, end |-> c.end, score |-> 1])
              ELSE Slice(scored_chunks, 0, top_k)))

-----------------------------------------------------------------------------
(* SimpleRAG._generate_answer: the rule-based extractor                    *)

key_terms == <<<<"c","o","n","f","i","d","e","n","t","i","a","l","i","t","y">>, <<"c","o","n","f","i","d","e","n","t","i","a","l">>, <<"i","n","d","e","m","n","i","t","y">>, <<"l","i","a","b","i","l","i","t","y">>,
               <<"t","e","r","m","i","n","a","t","i","o","n">>, <<"a","u","t","o","-","r","e","n","e","w","a","l">>>>

\* \d{1,2}[/-]\d{1,2}[/-]\d{2,4}|[A-Z][a-z]+\s+\d{1,2},?\s+\d{4}
date_pattern ==
    <<Alt(<<
        <<Digits(1, 2), Ch({"/", "-"}), Digits(1, 2), Ch({"/", "-"}), Digits(2, 4)>>,
        <<Ch(UpperSet), Rep(LowerSet, FALSE, 1, -1, FALSE), Spaces(1), Digits(1, 2),
          Rep({","}, FALSE, 0, 1, FALSE), Spaces(1), Digits(4, 4)>> >>)>>

NameChars == UpperSet \cup LowerSet \cup Whitespace \cup {"&", ",", "."}
\* ([A-Z][A-Za-z\s&,\.]+?)(?:\s+and\s+|\s+,\s+)([A-Z][A-Za-z\s&,\.]+?)
party_pattern ==
    <<Open(1), Ch(UpperSet), Rep(NameChars, FALSE, 1, -1, TRUE), Close(1),
      Alt(<< <<Spaces(1)>> \o Lit(<<"a","n","d">>) \o <<Spaces(1)>>,
             <<Spaces(1)>> \o Lit(<<",">>) \o <<Spaces(1)>> >>),
      Open(2), Ch(UpperSet), Rep(NameChars, FALSE, 1, -1, TRUE), Close(2)>>

\* \$[\d,]+(?:\.\d{2})?|[\d,]+(?:\.\d{2})?\s*(?:USD|EUR|GBP)
amount_pattern ==
    <<Alt(<<
        <<Ch({"$"}), Rep(DigitSet \cup {","}, FALSE, 1, -1, FALSE),
          Opt(Lit(<<".">>) \o <<Digits(2, 2)>>)>>,
        <<Rep(DigitSet \cup {","}, FALSE, 1, -1, FALSE), Opt(Lit(<<".">>) \o <<Digits(2, 2)>>),
          Spaces(0), Alt(<<Lit(<<"U","S","D">>), Lit(<<"E","U","R">>), Lit(<<"G","B","P">>)>>)>> >>)>>

\* [s.strip() for s in context.split('.') if Keep(s.lower())]
Sentences(context, Keep(_)) ==
    Map(SelectSeq(split_on(context, "."), LAMBDA s : Keep(lower(s))), strip)

\* the steps of _generate_answer in order; each gives an answer or passes
WhatIsAnswer(question_lower, context) ==
    LET K        == {k \in 1..Len(key_terms) : contains(question_lower, key_terms[k])}
        key_term == key_terms[SetMin(K)]
        relevant == Sentences(context, LAMBDA s : contains(s, lower(key_term)))
    IN  IF /\ (contains(question_lower, <<"w","h","a","t"," ","i","s">>) \/ contains(question_lower, <<"w","h","a","t"," ","d","o","e","s">>))
           /\ K # {}
           /\ Len(relevant) > 0
        THEN Some(Slice(join(<<"."," ">>, Slice(relevant, 0, 2)) \o <<".">>, 0, 500))
        ELSE None

DateAnswer(question_lower, context) ==
    Bind(Search(date_pattern, context, 0), LAMBDA m :
        IF (contains(question_lower, <<"w","h","e","n">>) \/ contains(question_lower, <<"d","a","t","e">>)) /\ m.ok
        THEN Some(<<"B","a","s","e","d"," ","o","n"," ","t","h","e"," ","d","o","c","u","m","e","n","t",","," ","t","h","e"," ","r","e","l","e","v","a","n","t"," ","d","a","t","e"," ","i","s",":"," ">> \o Slice(context, m.start, m.end))
        ELSE None)

PartyAnswer(question_lower, context) ==
    Bind(Search(party_pattern, context, 0), LAMBDA m :
        IF (contains(question_lower, <<"w","h","o">>) \/ contains(question_lower, <<"p","a","r","t","y">>)) /\ m.ok
        THEN Some(<<"T","h","e"," ","p","a","r","t","i","e","s"," ","m","e","n","t","i","o","n","e","d"," ","a","r","e",":"," ">>
                  \o join(<<","," ">>, <<GroupText(context, m, 1), GroupText(context, m, 2)>>))
        ELSE None)

AmountAnswer(question_lower, context) ==
    Bind(Search(amount_pattern, context, 0), LAMBDA m :
        IF /\ \/ contains(question_lower, <<"h","o","w"," ","m","u","c","h">>)
              \/ contains(question_lower, <<"a","m","o","u","n","t">>)
              \/ contains(question_lower, <<"p","r","i","c","e">>)
           /\ m.ok
        THEN Some(<<"B","a","s","e","d"," ","o","n"," ","t","h","e"," ","d","o","c","u","m","e","n","t",","," ","t","h","e"," ","a","m","o","u","n","t"," ","i","s",":"," ">> \o Slice(context, m.start, m.end))
        ELSE None)

\* A fault that the answer about the governing law has to detect: only the first
\* sentence with a term is returned.
DefaultAnswerFirstOnly(question_lower, context) ==
    LET query_terms == SelectSeq(split(question_lower), LAMBDA t : Len(t) > 2)
        relevant_sentences ==
            Sentences(context, LAMBDA s :
                \E i \in 1..Len(query_terms) : contains(s, query_terms[i]))
    IN  IF Len(relevant_sentences) > 0
        THEN Slice(join(<<"."," ">>, Slice(relevant_sentences, 0, 1)) \o <<".">>, 0, 500)
        ELSE <<"B","a","s","e","d"," ","o","n"," ","t","h","e"," ","d","o","c","u","m","e","n","t",":"," ">> \o Slice(context, 0, 400) \o <<".",".",".">>

DefaultAnswer(question_lower, context) ==
    LET query_terms == SelectSeq(split(question_lower), LAMBDA t : Len(t) > 2)
        relevant_sentences ==
            Sentences(context, LAMBDA s :
                \E i \in 1..Len(query_terms) : contains(s, query_terms[i]))
    IN  IF Len(relevant_sentences) > 0
        THEN Slice(join(<<"."," ">>, Slice(relevant_sentences, 0, 3)) \o <<".">>, 0, 500)
        ELSE <<"B","a","s","e","d"," ","o","n"," ","t","h","e"," ","d","o","c","u","m","e","n","t",":"," ">> \o Slice(context, 0, 400) \o <<".",".",".">>

\* A fault that the order of the rules has to detect: the amount is looked for before
\* the date and the parties.
_generate_answer_amount_first(question, context) ==
    Bind(lower(question), LAMBDA question_lower :
    Bind(WhatIsAnswer(question_lower, context), LAMBDA what_is :
    IF what_is.some THEN what_is.v ELSE
    Bind(AmountAnswer(question_lower, context), LAMBDA amount :
    IF amount.some THEN amount.v ELSE
    Bind(DateAnswer(question_lower, context), LAMBDA date :
    IF date.some THEN date.v ELSE
    Bind(PartyAnswer(question_lower, context), LAMBDA party :
    IF party.some THEN party.v
    ELSE DefaultAnswer(question_lower, context))))))

_generate_answer(question, context) ==
    Bind(lower(question), LAMBDA question_lower :
    Bind(WhatIsAnswer(question_lower, context), LAMBDA what_is :
    IF what_is.some THEN what_is.v ELSE
    Bind(DateAnswer(question_lower, context), LAMBDA date :
    IF date.some THEN date.v ELSE
    Bind(PartyAnswer(question_lower, context), LAMBDA party :
    IF party.some THEN party.v ELSE
    Bind(AmountAnswer(question_lower, context), LAMBDA amount :
    IF amount.some THEN amount.v
    ELSE DefaultAnswer(question_lower, context))))))

-----------------------------------------------------------------------------
(* The generation backends (app/rag.py).  What the network and the         *)
(* provider do is the reply; each _generate_with_* turns it into an answer *)
(* or raises.                                                              *)

\* kind: the call could not connect / timed out / came back with an HTTP error status /
\*       with a JSON object {"error": ...} / with JSON of another shape than the provider's
\*       (the empty list) / with the provider's completion, text.
Reply(kind, text) == [kind |-> kind, text |-> text]
Replies == {
    Reply("connect_error", <<>>),
    Reply("timeout", <<>>),
    Reply("http_error", <<>>),
    Reply("error_object", <<"{","'","e","r","r","o","r","'",":"," ","'","M","o","d","e","l"," ","i","s"," ","c","u","r","r","e","n","t","l","y"," ","l","o","a","d","i","n","g","'","}">>),   \* str() of the body
    Reply("empty_list", <<"[","]">>),
    Reply("completion", <<"N","e","w"," ","Y","o","r","k"," ","l","a","w"," ","g","o","v","e","r","n","s",".">>),
    Reply("completion", <<" "," ">>) }

NoReply == Reply("none", <<>>)

Raised       == [raised |-> TRUE, answer |-> <<>>]
Returned(a)  == [raised |-> FALSE, answer |-> a]

\* the exceptions httpx raises before a JSON body is in hand
TransportFailed(reply) == reply.kind \in {"connect_error", "timeout", "http_error"}

_generate_with_ollama(question, context, reply) ==
    IF TransportFailed(reply) THEN Raised
    \* if "error" in result: raise
    ELSE IF reply.kind = "error_object" THEN Raised
    \* a list has no .get: AttributeError, re-raised
    ELSE IF reply.kind = "empty_list" THEN Raised
    \* answer = result.get("response", "").strip(); if not answer: raise
    ELSE IF Len(strip(reply.text)) = 0 THEN Raised
    ELSE Returned(strip(reply.text))

_generate_with_huggingface(question, context, reply) ==
    IF TransportFailed(reply) THEN Raised
    \* isinstance(result, list) and len(result) > 0: the generated text without the
    \* prompt (reply.text is what follows the prompt), stripped
    ELSE IF reply.kind = "completion" THEN Returned(strip(reply.text))
    \* return str(result)
    ELSE Returned(reply.text)

_generate_with_groq(question, context, reply) ==
    IF TransportFailed(reply) THEN Raised
    \* result["choices"]: KeyError on an object without it, TypeError on a list
    ELSE IF reply.kind \in {"error_object", "empty_list"} THEN Raised
    ELSE Returned(strip(reply.text))

_generate_with_openai(question, context, reply) ==
    \* the SDK raises on every failure (the package missing included)
    IF TransportFailed(reply) \/ reply.kind \in {"error_object", "empty_list"} THEN Raised
    ELSE Returned(strip(reply.text))

\* SimpleRAG's configuration, as __init__ reads it from the environment; api_key is the
\* key of the provider chosen (hf_api_key, groq_api_key or openai_api_key), "" when unset
Config(llm_enabled, llm_provider, api_key) ==
    [llm_enabled |-> llm_enabled, llm_provider |-> llm_provider, api_key |-> api_key]
Configs == {
    Config(TRUE, "ollama", ""),              \* the defaults
    Config(FALSE, "ollama", ""),
    Config(TRUE, "huggingface", "hf_key"),
    Config(TRUE, "groq", "gsk_key"),
    Config(TRUE, "openai", "") }             \* provider chosen, its key missing

\* answer_question's test before it calls _generate_answer_with_llm
UsesLlm(cfg) == cfg.llm_enabled /\ cfg.llm_provider # "none"

\* the branch of _generate_answer_with_llm that calls a backend
CallsBackend(cfg) ==
    \/ cfg.llm_provider = "ollama"
    \/ cfg.llm_provider \in {"huggingface", "groq", "openai"} /\ cfg.api_key # ""

\* the backend call of _generate_answer_with_llm for a configuration that makes one
\* (lines 332-339)
generate_with_provider(cfg, question, context, reply) ==
    IF cfg.llm_provider = "ollama"
    THEN _generate_with_ollama(question, context, reply)
    ELSE IF cfg.llm_provider = "huggingface"
    THEN _generate_with_huggingface(question, context, reply)
    ELSE IF cfg.llm_provider = "groq"
    THEN _generate_with_groq(question, context, reply)
    ELSE _generate_with_openai(question, context, reply)

\* _generate_answer_with_llm; rule_based is _generate_answer(question, context)
_generate_answer_with_llm(cfg, question, context, reply, rule_based) ==
    LET r == IF CallsBackend(cfg)
             THEN generate_with_provider(cfg, question, context, reply)
             ELSE Returned(rule_based)
    IN  \* except Exception: return self._generate_answer(question, context)
        IF r.raised THEN rule_based ELSE r.answer

-----------------------------------------------------------------------------
(* SimpleRAG.answer_question                                               *)

MAX_FALLBACK_SIZE   == 10000
MAX_CONTEXT_FOR_LLM == 2000
snippet_chars       == 200
min_fallback_chars  == 100

Questions == {<<>>, <<"W","h","a","t"," ","i","s"," ","t","h","e"," ","g","o","v","e","r","n","i","n","g"," ","l","a","w","?">>, <<"w","h","a","t"," ","i","s"," ","l","i","a","b","i","l","i","t","y">>}

\* the loop body of the first pass for one document: its two best chunks, each with
\* the page of its start (page_raised: get_page_from_position raised)
DocChunks(question, text0) ==
    LET text   == IF Len(text0) > MAX_TEXT_SIZE THEN Slice(text0, 0, MAX_TEXT_SIZE) ELSE text0
        chunks == search_relevant_chunks(question, text, 2)
    IN  Map(chunks, LAMBDA chunk :
            Bind(get_page_from_position(text, chunk.start), LAMBDA page :
                [text |-> chunk.text, start |-> chunk.start, end |-> chunk.end,
                 score |-> chunk.score, page |-> page.page, page_raised |-> page.raised]))

\* DocChunks for the questions and texts of the model
Retrieved == [question \in Questions \ {<<>>}, name \in TextNames \cup BlankNames |->
                 DocChunks(question, Text[name])]

\* A fault that the bound on snippets has to detect: the chunk is cited whole.
text_snippet_whole(text) == text

\* "text_snippet" of a citation
text_snippet(text) ==
    IF Len(text) > snippet_chars THEN Slice(text, 0, snippet_chars) \o <<".",".",".">> ELSE text

\* A fault that the bound on the whole-document chunk has to detect: no document is cut.
whole_document_uncut(found) ==
    LET Big == {i \in 1..Len(found) : Len(Text[found[i].name]) > min_fallback_chars}
    IN  IF Big = {} THEN <<>>
        ELSE LET doc == found[SetMin(Big)]
             IN  <<[text |-> Text[doc.name], start |-> 0, end |-> Len(Text[doc.name]),
                    score |-> 1, page |-> 1, page_raised |-> FALSE,
                    document_id |-> doc.document_id]>>

\* the lenient pass (lines 194-216): the first document of more than 100 characters as
\* one chunk, cut to MAX_FALLBACK_SIZE characters; no chunk when there is none
whole_document(found) ==
    LET Big == {i \in 1..Len(found) : Len(Text[found[i].name]) > min_fallback_chars}
    IN  IF Big = {} THEN <<>>
        ELSE LET doc  == found[SetMin(Big)]
                 text == Text[doc.name]
                 text_to_use == IF Len(text) > MAX_FALLBACK_SIZE
                                THEN Slice(text, 0, MAX_FALLBACK_SIZE) ELSE text
             IN  <<[text |-> text_to_use, start |-> 0, end |-> Len(text_to_use),
                    score |-> 1, page |-> 1, page_raised |-> FALSE,
                    document_id |-> doc.document_id]>>

\* A fault that the rule for long contexts has to detect: the joined texts are cut, the
\* chunks after the first kept.
context_joined_cut(context_chunks) ==
    Slice(join(<<"\n","\n">>, context_chunks), 0, MAX_CONTEXT_FOR_LLM)

\* the context of the top chunks' texts (lines 230-237); context_chunks is not empty
context_for_llm(context_chunks) ==
    IF Len(join(<<"\n","\n">>, context_chunks)) > MAX_CONTEXT_FOR_LLM
    THEN Slice(context_chunks[1], 0, MAX_CONTEXT_FOR_LLM)
    ELSE join(<<"\n","\n">>, context_chunks)

\* Lines 166-237 and 254-262 of answer_question for the documents found, in the order
\* asked for: found[i] = [document_id, name of its text].
Prepare(question, found) ==
    LET WithId(i) == Map(Retrieved[question, found[i].name], LAMBDA c :
                         [text |-> c.text, start |-> c.start, end |-> c.end, score |-> c.score,
                          page |-> c.page, page_raised |-> c.page_raised,
                          document_id |-> found[i].document_id])
    IN  Bind(Flatten(Map(SubSeq([i \in 1..Len(found) |-> i], 1, Len(found)), WithId)),
             LAMBDA searched :
        Bind(IF Len(searched) > 0 THEN searched ELSE whole_document(found),
             LAMBDA all_chunks :
        Bind(Slice(SortByScore(all_chunks), 0, 3), LAMBDA top_chunks :
        Bind(context_for_llm(Map(top_chunks, LAMBDA c : c.text)), LAMBDA context :
        [raised     |-> \E i \in 1..Len(searched) : searched[i].page_raised,
         empty      |-> Len(all_chunks) = 0,
         context    |-> context,
         rule_based |-> IF Len(all_chunks) = 0 THEN <<>> ELSE _generate_answer(question, context),
         scores     |-> Map(top_chunks, LAMBDA c : c.score),
         citations  |-> Map(top_chunks, LAMBDA c :
                            [document_id  |-> c.document_id,
                             page         |-> c.page,
                             char_range   |-> <<c.start, c.end>>,
                             text_snippet |-> Str(text_snippet(c.text))])]))))

-----------------------------------------------------------------------------
(* The stores (app/database.py).  generate_document_id makes a new id for  *)
(* every upload, so a stored text never changes: documents is the sequence *)
(* of texts ingested and the i-th has the id DocId(i).                     *)

MaxDocs == 2

DocId(i) == Str(<<"d">> \o Decimal(i))

Stores == UNION {[1..k -> TextNames] : k \in 0..MaxDocs}

\* list_documents()
list_documents(store) == Map(SubSeq([i \in 1..Len(store) |-> i], 1, Len(store)), DocId)

\* get_document(document_id): the row, or None
get_document(store, document_id) ==
    LET K == {i \in 1..Len(store) : DocId(i) = document_id}
    IN  IF K = {} THEN None
        ELSE Some([document_id |-> document_id, name |-> store[SetMin(K)]])

\* the documents of a request that exist, in the order asked for
\* (for doc_id in document_ids: doc = await get_document(doc_id); if not doc: continue)
Found(store, document_ids) ==
    Map(SelectSeq(document_ids, LAMBDA d : get_document(store, d).some),
        LAMBDA d : get_document(store, d).v)

\* the document_ids a request may carry (None: all documents)
IdLists == {<<>>, <<DocId(1)>>, <<"missing">>, <<"missing", DocId(1)>>}

DocumentIdsOptions == {None} \cup {Some(ids) : ids \in IdLists}

\* the stores and the id lists of the calls of answer_question made on their own
AnswerTexts   == {"long", "empty", "blank", "blanker"}
AnswerStores  == UNION {[1..k -> AnswerTexts] : k \in 0..MaxDocs}
AnswerIdLists == IdLists \cup {<<DocId(1), DocId(1)>>, <<DocId(2), DocId(1)>>}

FoundSeqs ==
    {Found(store, ids) : store \in Stores,
                         ids \in IdLists \cup {list_documents(s) : s \in Stores}}
    \cup {Found(store, ids) : store \in AnswerStores,
                              ids \in AnswerIdLists \cup {list_documents(s) : s \in AnswerStores}}

\* Prepare for the questions and documents of the model
Prepared == [question \in Questions \ {<<>>}, found \in FoundSeqs |-> Prepare(question, found)]

no_documents_answer == <<"N","o"," ","d","o","c","u","m","e","n","t","s"," ","a","v","a","i","l","a","b","l","e"," ","t","o"," ","a","n","s","w","e","r"," ","t","h","e"," ","q","u","e","s","t","i","o","n",".">>
not_found_answer ==
    <<"I"," ","c","o","u","l","d","n","'","t"," ","f","i","n","d"," ","r","e","l","e","v","a","n","t"," ","i","n","f","o","r","m","a","t","i","o","n"," ","t","o"," ","a","n","s","w","e","r"," ","t","h","i","s"," ","q","u","e","s","t","i","o","n"," ","i","n"," ","t","h","e"," ","p","r","o","v","i","d","e","d"," ","d","o","c","u","m","e","n","t","s","."," ">>
    \o <<"P","l","e","a","s","e"," ","e","n","s","u","r","e"," ","d","o","c","u","m","e","n","t","s"," ","h","a","v","e"," ","b","e","e","n"," ","u","p","l","o","a","d","e","d"," ","a","n","d"," ","c","o","n","t","a","i","n"," ","t","e","x","t"," ","c","o","n","t","e","n","t",".">>

\* SimpleRAG.answer_question(question, document_ids) on the store, the backend answering
\* with reply if it is called.  raised: an exception leaves the method.
\* called, rule_based, scores and context are not part of the result: whether a backend
\* was called, what _generate_answer gives for the same question and context, the
\* scores of the chunks cited, and the context handed to the generator.
\* answer_question once the requested documents are known to be some (lines 169-267)
AnswerFound(cfg, question, p, reply) ==
    LET Result(raised, answer, citations, called, rule_based, scores, context) ==
            [raised |-> raised, answer |-> answer, citations |-> citations,
             called |-> called, rule_based |-> rule_based, scores |-> scores,
             context |-> context]
    IN  IF p.raised
        THEN Result(TRUE, <<>>, <<>>, FALSE, <<>>, <<>>, <<>>)
        ELSE IF p.empty
        THEN Result(FALSE, not_found_answer, <<>>, FALSE, <<>>, <<>>, <<>>)
        ELSE Result(FALSE,
                    IF UsesLlm(cfg)
                    THEN _generate_answer_with_llm(cfg, question, p.context, reply, p.rule_based)
                    ELSE p.rule_based,
                    p.citations,
                    UsesLlm(cfg) /\ CallsBackend(cfg),
                    p.rule_based,
                    p.scores,
                    p.context)

\* answer_question without the test for an empty list of documents
answer_question_unguarded(cfg, store, question, document_ids, reply) ==
    LET ids == IF document_ids.some THEN document_ids.v ELSE list_documents(store)
    IN  Bind(Prepared[question, Found(store, ids)], LAMBDA p :
            AnswerFound(cfg, question, p, reply))

answer_question(cfg, store, question, document_ids, reply) ==
    LET ids == IF document_ids.some THEN document_ids.v ELSE list_documents(store)
    IN  IF Len(ids) = 0
        THEN [raised |-> FALSE, answer |-> no_documents_answer, citations |-> <<>>,
              called |-> FALSE, rule_based |-> <<>>, scores |-> <<>>, context |-> <<>>]
        ELSE Bind(Prepared[question, Found(store, ids)], LAMBDA p :
                AnswerFound(cfg, question, p, reply))

\* whether answer_question reaches a backend call, so that a reply is part of the step
ReachesBackend(cfg, store, question, document_ids) ==
    answer_question(cfg, store, question, document_ids, NoReply).called

-----------------------------------------------------------------------------
(* The request handlers (app/routes.py).  A handler runs as one step and   *)
(* leaves its response in resp; Deliver hands the response to the caller.  *)
(* The webhook tasks the handlers schedule change nothing here.            *)

\* the requests counted by questions_asked and by audits_performed
MaxQuestions == 1
MaxAudits    == 2

RequestIds == {DocId(1), DocId(2), "missing"}

Idle == [op |-> "idle"]

\* extract_structured_fields for the texts of the model
Fields == [name \in TextNames |-> extract_structured_fields(Text[name])]

AuditKeys == {<<d, name, x>> : d \in RequestIds, name \in TextNames, x \in {None}}
             \cup {<<d, name, Some(Fields[name])>> : d \in RequestIds, name \in TextNames}
\* auditor.audit_document for the documents and fields of the model
Audits == [k \in AuditKeys |-> audit_document(k[1], Some(Text[k[2]]), k[3])]

\* the index of a stored document
IndexOf(document_id) == SetMin({i \in 1..Len(documents) : DocId(i) = document_id})

Increment(metric_name) == [counters EXCEPT ![metric_name] = @ + 1]

\* POST /ingest with one file: name is the text the PDF holds, or not a .pdf file
Ingest(name) ==
    /\ resp = Idle
    /\ IF name \notin TextNames
       THEN /\ resp' = [op |-> "ingest", status |-> 400]
            /\ UNCHANGED <<documents, extracted, counters, last_audit>>
       ELSE /\ Len(documents) < MaxDocs
            /\ documents' = Append(documents, name)
            /\ extracted' = Append(extracted, None)
            /\ counters' = Increment("documents_ingested")
            /\ last_audit' = None
            /\ resp' = [op |-> "ingest", status |-> 200,
                        document_ids |-> <<DocId(Len(documents) + 1)>>, count |-> 1]
    /\ UNCHANGED <<config, ck, pg, run>>

\* POST /extract
Extract(document_id) ==
    /\ resp = Idle
    /\ LET doc == get_document(documents, document_id)
       IN  IF doc.some /\ extracted[IndexOf(document_id)].some
           THEN \* existing = await get_extracted_fields(...); if existing: return existing
                /\ resp' = [op |-> "extract", status |-> 200,
                            fields |-> extracted[IndexOf(document_id)].v]
                /\ UNCHANGED <<extracted, counters, last_audit>>
           ELSE IF ~doc.some
           THEN /\ resp' = [op |-> "extract", status |-> 404]
                /\ UNCHANGED <<extracted, counters, last_audit>>
           ELSE \E fields \in {Fields[doc.v.name]} :
                /\ extracted' = [extracted EXCEPT ![IndexOf(document_id)] = Some(fields)]
                /\ counters' = Increment("extractions_performed")
                /\ last_audit' = None
                /\ resp' = [op |-> "extract", status |-> 200, fields |-> fields]
    /\ UNCHANGED <<documents, config, ck, pg, run>>

\* the reply of the backend, where the request reaches one
BackendReplies(question, document_ids) ==
    IF Len(question) > 0 /\ ReachesBackend(config, documents, question, document_ids)
    THEN Replies ELSE {NoReply}

\* POST /ask; reply is one of BackendReplies(question, document_ids)
Ask(question, document_ids, reply) ==
    /\ resp = Idle
    /\ LET request == [question |-> question, document_ids |-> document_ids]
       IN  IF Len(question) = 0
           THEN /\ resp' = [op |-> "ask", status |-> 400, request |-> request]
                /\ UNCHANGED counters
           ELSE \E result \in {answer_question(config, documents, question, document_ids, reply)} :
           IF result.raised
           THEN /\ resp' = [op |-> "ask", status |-> 500, request |-> request]
                /\ UNCHANGED counters
           ELSE /\ counters.questions_asked < MaxQuestions
                /\ counters' = Increment("questions_asked")
                /\ resp' = [op |-> "ask", status |-> 200, request |-> request,
                            answer |-> Str(result.answer), citations |-> result.citations,
                            reply |-> reply, called |-> result.called,
                            rule_based |-> Str(result.rule_based), scores |-> result.scores]
    /\ UNCHANGED <<documents, extracted, config, last_audit, ck, pg, run>>

\* GET /ask/stream: the events of the stream; broken: the generator raised
AskStream(question, document_ids, reply) ==
    /\ resp = Idle
    /\ LET request == [question |-> question, document_ids |-> document_ids]
       IN  IF Len(question) = 0
           THEN resp' = [op |-> "ask_stream", status |-> 400, request |-> request]
           ELSE \E result \in {answer_question(config, documents, question, document_ids, reply)} :
           IF result.raised
           THEN resp' = [op |-> "ask_stream", status |-> 200, request |-> request,
                         broken |-> TRUE, tokens |-> <<>>]
           ELSE resp' = [op |-> "ask_stream", status |-> 200, request |-> request,
                         broken |-> FALSE,
                         tokens |-> Map(split(result.answer), LAMBDA word : Str(word \o <<" ">>)),
                         answer |-> Str(result.answer), citations |-> result.citations,
                         reply |-> reply, called |-> result.called,
                         rule_based |-> Str(result.rule_based), scores |-> result.scores]
    /\ UNCHANGED <<documents, extracted, counters, config, last_audit, ck, pg, run>>

\* A fault that the idempotence of audits has to detect: an audit that also stores the
\* fields it would extract.
AuditStoringFields(document_id) ==
    /\ resp = Idle
    /\ LET doc == get_document(documents, document_id)
           before == IF last_audit.some /\ last_audit.v.document_id = document_id
                     THEN Some(last_audit.v.findings) ELSE None
       IN  IF ~doc.some
           THEN /\ resp' = [op |-> "audit", status |-> 404, document_id |-> document_id]
                /\ UNCHANGED <<counters, last_audit, extracted>>
           ELSE \E result \in {Audits[<<document_id, doc.v.name, extracted[IndexOf(document_id)]>>]} :
                    IF result.raised
                    THEN /\ resp' = [op |-> "audit", status |-> 500, document_id |-> document_id]
                         /\ UNCHANGED <<counters, last_audit, extracted>>
                    ELSE /\ counters.audits_performed < MaxAudits
                         /\ counters' = Increment("audits_performed")
                         /\ extracted' = [extracted EXCEPT ![IndexOf(document_id)] =
                                              Some(Fields[doc.v.name])]
                         /\ last_audit' = Some([document_id |-> document_id,
                                                findings |-> result.findings])
                         /\ resp' = [op |-> "audit", status |-> 200,
                                     document_id |-> document_id,
                                     findings |-> result.findings,
                                     count |-> Len(result.findings),
                                     before |-> before]
    /\ UNCHANGED <<documents, config, ck, pg, run>>

\* POST /audit; before: the findings of the audit just before this one, when that was of
\* the same document and the stores have not changed since
Audit(document_id) ==
    /\ resp = Idle
    /\ LET doc == get_document(documents, document_id)
           before == IF last_audit.some /\ last_audit.v.document_id = document_id
                     THEN Some(last_audit.v.findings) ELSE None
       IN  IF ~doc.some
           THEN /\ resp' = [op |-> "audit", status |-> 404, document_id |-> document_id]
                /\ UNCHANGED <<counters, last_audit>>
           ELSE \E result \in {Audits[<<document_id, doc.v.name, extracted[IndexOf(document_id)]>>]} :
                    IF result.raised
                    THEN /\ resp' = [op |-> "audit", status |-> 500, document_id |-> document_id]
                         /\ UNCHANGED <<counters, last_audit>>
                    ELSE /\ counters.audits_performed < MaxAudits
                         /\ counters' = Increment("audits_performed")
                         /\ last_audit' = Some([document_id |-> document_id,
                                                findings |-> result.findings])
                         /\ resp' = [op |-> "audit", status |-> 200,
                                     document_id |-> document_id,
                                     findings |-> result.findings,
                                     count |-> Len(result.findings),
                                     before |-> before]
    /\ UNCHANGED <<documents, extracted, config, ck, pg, run>>

\* the caller receives the response
Deliver ==
    /\ resp # Idle
    /\ resp' = Idle
    /\ UNCHANGED <<documents, extracted, counters, config, last_audit, ck, pg, run>>

\* a harness variable of a specification that does not use it
NoCall == [called |-> FALSE]

Init ==
    /\ documents = <<>>
    /\ extracted = <<>>
    /\ counters = [documents_ingested |-> 0, extractions_performed |-> 0,
                   questions_asked |-> 0, audits_performed |-> 0]
    /\ config \in Configs
    /\ resp = Idle
    /\ last_audit = None
    /\ ck = NoCall
    /\ pg = NoCall
    /\ run = NoCall

Next ==
    \/ \E name \in TextNames \cup {"notes.txt"} : Ingest(name)
    \/ \E document_id \in RequestIds : Extract(document_id)
    \/ \E question \in Questions, document_ids \in DocumentIdsOptions :
          \E reply \in BackendReplies(question, document_ids) :
             Ask(question, document_ids, reply)
    \/ \E question \in Questions, document_ids \in DocumentIdsOptions :
          \E reply \in BackendReplies(question, document_ids) :
             AskStream(question, document_ids, reply)
    \/ \E document_id \in RequestIds : Audit(document_id)
    \/ Deliver

Spec == Init /\ [][Next]_vars

-----------------------------------------------------------------------------
(* Harness for chunk_text: the arguments are drawn at Init and RunChunk    *)
(* calls it; RunLong calls it on a text long enough for more than          *)
(* max_chunks chunks, RunHuge on a text longer than MAX_TEXT_SIZE.         *)

MaxTextLen == 6
MaxSize    == 5
ChunkAlphabet == {"a", ".", "\n"}

\* every text of at most MaxTextLen characters
ChunkTexts == UNION {[1..n -> ChunkAlphabet] : n \in 0..MaxTextLen}

\* the stores and the handlers play no part in the harnesses
ApiUnused ==
    /\ documents = <<>>
    /\ extracted = <<>>
    /\ counters = <<>>
    /\ config = <<>>
    /\ resp = <<>>
    /\ last_audit = <<>>

InitChunk ==
    /\ ApiUnused
    /\ pg = NoCall
    /\ run = NoCall
    /\ \E text \in ChunkTexts, chunk_size \in 1..MaxSize, overlap \in 0..MaxSize :
          ck = [called |-> FALSE, text |-> text, chunk_size |-> chunk_size,
                overlap |-> overlap, out |-> <<>>]

RunChunk ==
    /\ ~ck.called
    /\ ck' = [ck EXCEPT !.called = TRUE,
                        !.out = chunk_text(ck.text, ck.chunk_size, ck.overlap)]
    /\ UNCHANGED <<documents, extracted, counters, config, resp, last_audit, pg, run>>

RunLong ==
    /\ ck.called
    /\ ck.text = <<>>
    /\ LET text == Repeat(<<"a">>, max_chunks + ck.chunk_size)
       IN  ck' = [ck EXCEPT !.text = text,
                           !.out = chunk_text(text, ck.chunk_size, ck.overlap)]
    /\ UNCHANGED <<documents, extracted, counters, config, resp, last_audit, pg, run>>

\* a text longer than MAX_TEXT_SIZE, cut into chunks of a size that reaches the limit
\* within a few chunks
RunHuge ==
    /\ ck.called
    /\ ck.text = <<>>
    /\ ck.overlap = 0
    /\ LET text       == Repeat(<<"a">>, MAX_TEXT_SIZE + ck.chunk_size)
           chunk_size == ck.chunk_size * (MAX_TEXT_SIZE \div MaxSize)
       IN  ck' = [ck EXCEPT !.text = text,
                           !.chunk_size = chunk_size,
                           !.out = chunk_text(text, chunk_size, ck.overlap)]
    /\ UNCHANGED <<documents, extracted, counters, config, resp, last_audit, pg, run>>

NextChunk == RunChunk \/ RunLong \/ RunHuge

SpecChunk == InitChunk /\ [][NextChunk]_vars

-----------------------------------------------------------------------------
(* Harness for get_page_from_position: a text is drawn at Init as a sequence *)
(* of segments, IndexPages calls the function at every offset of the text.  *)

MaxSegs == 4
MaxPage == 3

\* segment kinds: 1..MaxPage a page marker, 0 and -1 filler, -2 a marker
\* whose page is not an integer, -3 a marker cut short after "--- Page "
SegKinds == (-3)..MaxPage

SegText(k) ==
    IF k >= 1 THEN page_marker \o Decimal(k) \o marker_close \o <<"\n">>
    ELSE IF k = 0 THEN <<"x">>
    ELSE IF k = -1 THEN <<"-", " ">>
    ELSE IF k = -2 THEN page_marker \o <<"X">> \o marker_close \o <<"\n">>
    ELSE page_marker

RECURSIVE SegsText(_)
SegsText(segs) ==
    IF Len(segs) = 0 THEN <<>>
    ELSE SegsText(SubSeq(segs, 1, Len(segs) - 1)) \o SegText(segs[Len(segs)])

PageSegs == UNION {[1..n -> SegKinds] : n \in 0..MaxSegs}

\* every marker is well formed, and the page numbers increase along the text
MarkersIncreasing(segs) ==
    /\ \A i \in 1..Len(segs) : segs[i] >= -1
    /\ \A i, j \in 1..Len(segs) : (i < j /\ segs[i] >= 1 /\ segs[j] >= 1) => segs[i] < segs[j]

InitPage ==
    /\ ApiUnused
    /\ ck = NoCall
    /\ run = NoCall
    /\ \E segs \in PageSegs :
          pg = [called |-> FALSE, segs |-> segs, text |-> SegsText(segs), pages |-> <<>>]

IndexPages ==
    /\ ~pg.called
    /\ pg' = [pg EXCEPT !.called = TRUE,
                        !.pages = [a \in 0..(Len(pg.text) + 1) |->
                                      get_page_from_position(pg.text, a)]]
    /\ UNCHANGED <<documents, extracted, counters, config, resp, last_audit, ck, run>>

NextPage == IndexPages

SpecPage == InitPage /\ [][NextPage]_vars

-----------------------------------------------------------------------------
(* Harness for answer_question: the configuration, the stored documents,   *)
(* the question and the ids are drawn at Init; RunAnswer makes the call,   *)
(* with the reply of the backend where the call reaches one.               *)

AnswerIdOptions == {None} \cup {Some(ids) : ids \in AnswerIdLists}

InitAnswer ==
    /\ ApiUnused
    /\ ck = NoCall
    /\ pg = NoCall
    /\ \E cfg \in Configs, store \in AnswerStores, question \in Questions \ {<<>>},
          document_ids \in AnswerIdOptions :
          run = [called |-> FALSE, cfg |-> cfg, store |-> store, question |-> question,
                 document_ids |-> document_ids]

RunAnswer ==
    /\ ~run.called
    /\ \E reply \in IF ReachesBackend(run.cfg, run.store, run.question, run.document_ids)
                    THEN Replies ELSE {NoReply} :
          run' = [called |-> TRUE, cfg |-> run.cfg, store |-> run.store,
                  question |-> run.question, document_ids |-> run.document_ids,
                  reply |-> reply,
                  out |-> answer_question(run.cfg, run.store, run.question,
                                          run.document_ids, reply)]
    /\ UNCHANGED <<documents, extracted, counters, config, resp, last_audit, ck, pg>>

NextAnswer == RunAnswer

SpecAnswer == InitAnswer /\ [][NextAnswer]_vars

-----------------------------------------------------------------------------
(* Harness for _generate_answer: the context is drawn at Init as a         *)
(* sequence of sentences, each ended by a full stop; RunGenerate calls the *)
(* extractor with the question about the governing law.                    *)

MaxSentences == 4

law_question == <<"W","h","a","t"," ","i","s"," ","t","h","e"," ","g","o","v","e","r","n","i","n","g"," ","l","a","w","?">>
law_sentence == <<"G","o","v","e","r","n","e","d"," ","b","y"," ","t","h","e"," ","l","a","w","s"," ","o","f"," ","N","e","w"," ","Y","o","r","k">>

\* sentence kinds: 1 the sentence on the governing law, 2 a sentence that holds a term
\* of the question ("the"), 3 a sentence that holds none, 4 a long sentence that holds
\* a term
SentenceKinds == 1..4
\* 5 a sentence with the key term liability, 6 with a date, 7 with two parties, 8 with
\* an amount

SentenceText(k) ==
    CASE k = 1 -> law_sentence
      [] k = 2 -> <<"T","h","e"," ","f","e","e"," ","i","s"," ","f","i","x","e","d">>
      [] k = 3 -> <<"P","a","y","m","e","n","t"," ","i","s"," ","d","u","e"," ","o","n"," ","r","e","c","e","i","p","t">>
      [] k = 4 -> <<"E","a","c","h"," ","p","a","r","t","y"," ","s","h","a","l","l"," ","k","e","e","p"," ","t","h","e"," ","r","e","c","o","r","d","s">> \o Repeat(<<" ","a","n","d"," ","t","h","e"," ","a","c","c","o","u","n","t","s">>, 14)
      [] k = 5 -> <<"T","h","e"," ","l","i","a","b","i","l","i","t","y"," ","o","f"," ","e","a","c","h"," ","s","i","d","e"," ","i","s"," ","c","a","p","p","e","d">>
      [] k = 6 -> <<"S","i","g","n","e","d"," ","o","n"," ","J","a","n","u","a","r","y"," ","5",","," ","2","0","2","4">>
      [] k = 7 -> <<"A","c","m","e"," ","C","o","r","p"," ","a","n","d"," ","B","e","t","a"," ","L","L","C"," ","a","g","r","e","e">>
      [] k = 8 -> <<"T","h","e"," ","f","e","e"," ","i","s"," ","$","5",",","0","0","0">>

RECURSIVE ContextOf(_)
ContextOf(kinds) ==
    IF Len(kinds) = 0 THEN <<>>
    ELSE ContextOf(SubSeq(kinds, 1, Len(kinds) - 1))
         \o (IF Len(kinds) > 1 THEN <<" ">> ELSE <<>>)
         \o SentenceText(kinds[Len(kinds)]) \o <<".">>

ContextKinds == UNION {[1..n -> SentenceKinds] : n \in 0..MaxSentences}

InitGenerate ==
    /\ ApiUnused
    /\ ck = NoCall
    /\ pg = NoCall
    /\ \E kinds \in ContextKinds :
          run = [called |-> FALSE, kinds |-> kinds, question |-> law_question,
                 context |-> ContextOf(kinds)]

RunGenerate ==
    /\ ~run.called
    /\ run' = [called |-> TRUE, kinds |-> run.kinds, question |-> run.question,
               context |-> run.context,
               out |-> _generate_answer(run.question, run.context)]
    /\ UNCHANGED <<documents, extracted, counters, config, resp, last_audit, ck, pg>>

NextGenerate == RunGenerate

SpecGenerate == InitGenerate /\ [][NextGenerate]_vars

-----------------------------------------------------------------------------
(* Harness for the order of the rules of _generate_answer: the question is *)
(* drawn among questions that several rules apply to, the context among    *)
(* sequences of sentences that hold a key term, a date, two parties, an    *)
(* amount or none of these; RunGenerate calls the extractor.               *)

MaxRuleSentences == 3

RuleQuestions == {<<"w","h","a","t"," ","i","s"," ","l","i","a","b","i","l","i","t","y">>, <<"W","h","e","n"," ","i","s"," ","t","h","e"," ","a","m","o","u","n","t"," ","d","u","e","?">>, <<"W","h","o"," ","p","a","y","s",","," ","a","n","d"," ","w","h","e","n","?">>,
                  <<"w","h","a","t"," ","d","o","e","s"," ","t","e","r","m","i","n","a","t","i","o","n"," ","c","o","s","t">>, <<"w","h","a","t"," ","i","s"," ","t","h","e"," ","l","i","a","b","i","l","i","t","y"," ","a","m","o","u","n","t">>}

RuleKinds == {3, 5, 6, 7, 8}

RuleContexts == UNION {[1..n -> RuleKinds] : n \in 0..MaxRuleSentences}

InitRules ==
    /\ ApiUnused
    /\ ck = NoCall
    /\ pg = NoCall
    /\ \E question \in RuleQuestions, kinds \in RuleContexts :
          run = [called |-> FALSE, kinds |-> kinds, question |-> question,
                 context |-> ContextOf(kinds)]

SpecRules == InitRules /\ [][NextGenerate]_vars

-----------------------------------------------------------------------------
(* Harness for audit_document: the text is drawn at Init as a page of      *)
(* clauses, one per line, and the extracted fields are those of the text   *)
(* or none; RunAudit makes the call (out), and the call for the same text   *)
(* with no fields stored (plain).                                          *)

MaxClauses == 3

\* clause kinds: 1 unlimited liability, 2 auto-renewal on short notice, 3 a liability
\* cap, 4 exclusive terms after names written with the dotted capital I
ClauseKinds == 1..4

ClauseText(k) ==
    CASE k = 1 -> <<"T","h","e"," ","s","u","p","p","l","i","e","r"," ","a","c","c","e","p","t","s"," ","u","n","l","i","m","i","t","e","d"," ","l","i","a","b","i","l","i","t","y",".">>
      [] k = 2 -> <<"T","h","i","s"," ","a","g","r","e","e","m","e","n","t"," ","h","a","s"," ","a","u","t","o","-","r","e","n","e","w","a","l"," ","w","i","t","h"," ","w","r","i","t","t","e","n"," ","n","o","t","i","c","e"," ","o","f"," ","1","0"," ","d","a","y","s",".">>
      [] k = 3 -> <<"L","i","a","b","i","l","i","t","y"," ","c","a","p",":"," ","$","5",",","0","0","0",".">>
      [] k = 4 -> <<DottedI>> \o <<"s","t","a","n","b","u","l"," ","T","i","c","a","r","e","t"," ","(">> \o <<DottedI>> \o <<"T","O",")",","," ">>
                  \o <<DottedI>> \o <<"z","m","i","r",":"," ","t","h","e"," ","e","x","c","l","u","s","i","v","e"," ","s","u","p","p","l","i","e","r",".">>

RECURSIVE ClausesText(_)
ClausesText(kinds) ==
    IF Len(kinds) = 0 THEN <<"-","-","-"," ","P","a","g","e"," ","1"," ","-","-","-","\n">>
    ELSE ClausesText(SubSeq(kinds, 1, Len(kinds) - 1)) \o ClauseText(kinds[Len(kinds)]) \o <<"\n">>

AuditKinds == UNION {[1..n -> ClauseKinds] : n \in 0..MaxClauses}

InitAudit ==
    /\ ApiUnused
    /\ ck = NoCall
    /\ pg = NoCall
    /\ \E kinds \in AuditKinds, stored \in BOOLEAN :
          run = [called |-> FALSE, kinds |-> kinds, text |-> ClausesText(kinds),
                 extracted_fields |-> IF stored
                                      THEN Some(extract_structured_fields(ClausesText(kinds)))
                                      ELSE None]

RunAudit ==
    /\ ~run.called
    /\ run' = [called |-> TRUE, kinds |-> run.kinds, text |-> run.text,
               extracted_fields |-> run.extracted_fields,
               out |-> audit_document(DocId(1), Some(run.text), run.extracted_fields),
               plain |-> audit_document(DocId(1), Some(run.text), None)]
    /\ UNCHANGED <<documents, extracted, counters, config, resp, last_audit, ck, pg>>

NextAudit == RunAudit

SpecAudit == InitAudit /\ [][NextAudit]_vars

-----------------------------------------------------------------------------
(* Calls of answer_question and of audit_document that run at the same     *)
(* time.  Each call is a coroutine: it runs from one await to the next     *)
(* without interruption, and at an await (a read of the store, the wait    *)
(* for the backend) the other calls may run.  What a call keeps between    *)
(* two awaits is in its own locals; the store is all the calls share.      *)

MaxCalls == 2

\* the stores of the calls: the texts and, per document, the fields extracted or none
ConcurrentStores == {<<"example", "long">>, <<"renewal">>}
ConcurrentIds    == {None, Some(<<DocId(1)>>), Some(<<"missing">>), Some(<<"missing", DocId(1)>>)}

AnswerCall(question, document_ids) ==
    [op |-> "answer", question |-> question, document_ids |-> document_ids,
     pc |-> "start", ids |-> <<>>, i |-> 1, found |-> <<>>, found_again |-> <<>>,
     reply |-> NoReply, out |-> None, overlapped |-> FALSE]

AuditCall(document_id) ==
    [op |-> "audit", document_id |-> document_id, pc |-> "start", doc |-> None,
     out |-> None, overlapped |-> FALSE]

Calls == {AnswerCall(question, document_ids) :
              question \in Questions \ {<<>>}, document_ids \in ConcurrentIds}
         \cup {AuditCall(document_id) : document_id \in RequestIds}

InitConcurrent ==
    /\ documents \in ConcurrentStores
    /\ extracted \in [1..Len(documents) -> {None} \cup {Some(Fields[n]) : n \in TextNames}]
    /\ \A i \in 1..Len(documents) :
          extracted[i].some => extracted[i].v = Fields[documents[i]]
    /\ config \in {Config(TRUE, "ollama", ""), Config(FALSE, "ollama", "")}
    /\ counters = <<>>
    /\ resp = <<>>
    /\ last_audit = <<>>
    /\ ck = NoCall
    /\ pg = NoCall
    /\ run \in [1..MaxCalls -> Calls]

\* a call that has begun and has not returned
InProgress(c) == run[c].pc \notin {"start", "done"}

\* call c goes on to the state next; overlapped: it has run while another call was in
\* progress
Step(c, next) ==
    /\ run' = [run EXCEPT ![c] =
                  [next EXCEPT !.overlapped = @ \/ \E k \in DOMAIN run : k # c /\ InProgress(k)]]
    /\ UNCHANGED <<documents, extracted, counters, config, resp, last_audit, ck, pg>>

Return(call, result) == [call EXCEPT !.pc = "done", !.out = Some(result)]

\* the result of answer_question when an exception leaves it
AnswerRaised ==
    [raised |-> TRUE, answer |-> <<>>, citations |-> <<>>, called |-> FALSE,
     rule_based |-> <<>>, scores |-> <<>>, context |-> <<>>]

\* the first pass retrieved chunks from the documents found
HasChunks(question, found) ==
    \E j \in 1..Len(found) : Len(Retrieved[question, found[j].name]) > 0

\* what answer_question has prepared from the documents its passes read
PreparedBy(call) ==
    Prepared[call.question,
             IF HasChunks(call.question, call.found) THEN call.found ELSE call.found_again]

\* lines 218-252 up to the await of the backend: the call returns, or waits for the reply
AfterRetrieval(call) ==
    IF ~PreparedBy(call).empty /\ UsesLlm(config) /\ CallsBackend(config)
    THEN [call EXCEPT !.pc = "backend"]
    ELSE Return(call, AnswerFound(config, call.question, PreparedBy(call), NoReply))

\* lines 160-167: await list_documents() when no ids are given
AnswerStart(c) ==
    /\ run[c].op = "answer"
    /\ run[c].pc = "start"
    /\ \E ids \in {IF run[c].document_ids.some THEN run[c].document_ids.v
                   ELSE list_documents(documents)} :
          Step(c, IF Len(ids) = 0
                  THEN Return(run[c],
                              [raised |-> FALSE, answer |-> no_documents_answer,
                               citations |-> <<>>, called |-> FALSE, rule_based |-> <<>>,
                               scores |-> <<>>, context |-> <<>>])
                  ELSE [run[c] EXCEPT !.pc = "search", !.ids = ids])

\* lines 172-191: await get_document(doc_id) of the first pass, and the search of the
\* document read
AnswerGetDocument(c) ==
    /\ run[c].op = "answer"
    /\ run[c].pc = "search"
    /\ \E doc \in {get_document(documents, run[c].ids[run[c].i])} :
       \E found \in {IF doc.some THEN Append(run[c].found, doc.v) ELSE run[c].found} :
          Step(c,
               IF doc.some /\ \E k \in 1..Len(Retrieved[run[c].question, doc.v.name]) :
                                  Retrieved[run[c].question, doc.v.name][k].page_raised
               THEN Return(run[c], AnswerRaised)
               ELSE IF run[c].i < Len(run[c].ids)
               THEN [run[c] EXCEPT !.found = found, !.i = @ + 1]
               ELSE IF HasChunks(run[c].question, found)
               THEN AfterRetrieval([run[c] EXCEPT !.found = found])
               ELSE [run[c] EXCEPT !.found = found, !.i = 1, !.pc = "lenient"])

\* lines 196-216: await get_document(doc_id) of the lenient pass
AnswerGetDocumentAgain(c) ==
    /\ run[c].op = "answer"
    /\ run[c].pc = "lenient"
    /\ \E doc \in {get_document(documents, run[c].ids[run[c].i])} :
          Step(c,
               IF doc.some /\ Len(Text[doc.v.name]) > min_fallback_chars
               THEN AfterRetrieval([run[c] EXCEPT !.found_again = <<doc.v>>])
               ELSE IF run[c].i < Len(run[c].ids)
               THEN [run[c] EXCEPT !.i = @ + 1]
               ELSE AfterRetrieval(run[c]))

\* lines 242-250: the backend has replied, or its call has failed
AnswerBackendReplied(c, reply) ==
    /\ run[c].op = "answer"
    /\ run[c].pc = "backend"
    /\ Step(c, Return([run[c] EXCEPT !.reply = reply],
                      AnswerFound(config, run[c].question, PreparedBy(run[c]), reply)))

\* A fault that the independence of the calls has to detect: the document read is kept
\* on the auditor, which the calls share.
AuditGetDocumentShared(c) ==
    /\ run[c].op = "audit"
    /\ run[c].pc = "start"
    /\ \E doc \in {get_document(documents, run[c].document_id)} :
          IF ~doc.some
          THEN Step(c, Return(run[c], [raised |-> FALSE, findings |-> <<>>]))
          ELSE /\ run' = [k \in DOMAIN run |->
                            IF k = c THEN [run[c] EXCEPT !.pc = "fields", !.doc = doc]
                            ELSE IF run[k].op = "audit" /\ run[k].pc = "fields"
                            THEN [run[k] EXCEPT !.doc = doc]
                            ELSE run[k]]
               /\ UNCHANGED <<documents, extracted, counters, config, resp, last_audit, ck, pg>>

\* auditor.py:41-72: await get_document(document_id), and the pattern pass
AuditGetDocument(c) ==
    /\ run[c].op = "audit"
    /\ run[c].pc = "start"
    /\ \E doc \in {get_document(documents, run[c].document_id)} :
          Step(c,
               IF ~doc.some
               THEN Return(run[c], [raised |-> FALSE, findings |-> <<>>])
               ELSE IF Audits[<<run[c].document_id, doc.v.name, None>>].raised
               THEN Return(run[c], [raised |-> TRUE, findings |-> <<>>])
               ELSE [run[c] EXCEPT !.pc = "fields", !.doc = doc])

\* auditor.py:75-109: await get_extracted_fields(document_id), and the field pass
AuditGetFields(c) ==
    /\ run[c].op = "audit"
    /\ run[c].pc = "fields"
    /\ \E fields \in {extracted[IndexOf(run[c].document_id)]} :
          Step(c, Return(run[c],
                         Audits[<<run[c].document_id, run[c].doc.v.name, fields>>]))

NextConcurrent ==
    \E c \in 1..MaxCalls :
        \/ AnswerStart(c)
        \/ AnswerGetDocument(c)
        \/ AnswerGetDocumentAgain(c)
        \/ \E reply \in Replies : AnswerBackendReplied(c, reply)
        \/ AuditGetDocument(c)
        \/ AuditGetFields(c)

SpecConcurrent == InitConcurrent /\ [][NextConcurrent]_vars

-----------------------------------------------------------------------------
(* The generation of an answer step by step (answer_question, lines        *)
(* 239-252, and _generate_answer_with_llm): where the call stands (pc),    *)
(* how often a backend was called (attempts) and how often the rule-based  *)
(* extractor ran (rule_runs).  The handler of line 243 is never entered:   *)
(* _generate_answer_with_llm catches every exception itself.               *)

InitSynthesis ==
    /\ ApiUnused
    /\ ck = NoCall
    /\ pg = NoCall
    /\ \E cfg \in Configs, kinds \in ContextKinds :
          /\ Len(kinds) <= 2
          /\ run = [called |-> FALSE, pc |-> "answer_question", cfg |-> cfg,
                    question |-> law_question, context |-> ContextOf(kinds),
                    reply |-> NoReply, attempts |-> 0, rule_runs |-> 0, failed |-> FALSE,
                    answer |-> <<>>]

\* line 240: if self.llm_enabled and self.llm_provider != "none"
ChooseGenerator ==
    /\ run.pc = "answer_question"
    /\ run' = [run EXCEPT !.pc = IF UsesLlm(run.cfg) THEN "_generate_answer_with_llm"
                                 ELSE "_generate_answer"]
    /\ UNCHANGED <<documents, extracted, counters, config, resp, last_audit, ck, pg>>

\* lines 332-342: the request to the provider configured, or no backend to call
CallBackend ==
    /\ run.pc = "_generate_answer_with_llm"
    /\ run' = IF CallsBackend(run.cfg)
              THEN [run EXCEPT !.pc = "backend", !.attempts = @ + 1]
              ELSE [run EXCEPT !.pc = "_generate_answer"]
    /\ UNCHANGED <<documents, extracted, counters, config, resp, last_audit, ck, pg>>

\* A fault that the count of attempts has to detect: a failed call is made once more.
BackendRetried(reply) ==
    /\ run.pc = "backend"
    /\ \E r \in {generate_with_provider(run.cfg, run.question, run.context, reply)} :
          run' = IF r.raised /\ run.attempts < 2
                 THEN [run EXCEPT !.attempts = @ + 1, !.reply = reply]
                 ELSE IF r.raised
                 THEN [run EXCEPT !.pc = "_generate_answer", !.reply = reply, !.failed = TRUE]
                 ELSE [run EXCEPT !.pc = "return", !.reply = reply, !.answer = r.answer,
                                  !.called = TRUE]
    /\ UNCHANGED <<documents, extracted, counters, config, resp, last_audit, ck, pg>>

\* the provider's function ends: it returns the completion, or it raises and the
\* handler of lines 343-349 takes over
BackendReplied(reply) ==
    /\ run.pc = "backend"
    /\ \E r \in {generate_with_provider(run.cfg, run.question, run.context, reply)} :
          run' = IF r.raised
                 THEN [run EXCEPT !.pc = "_generate_answer", !.reply = reply, !.failed = TRUE]
                 ELSE [run EXCEPT !.pc = "return", !.reply = reply, !.answer = r.answer,
                                  !.called = TRUE]
    /\ UNCHANGED <<documents, extracted, counters, config, resp, last_audit, ck, pg>>

\* lines 252, 342 and 349: the rule-based extractor
RunRuleBased ==
    /\ run.pc = "_generate_answer"
    /\ run' = [run EXCEPT !.pc = "return", !.rule_runs = @ + 1, !.called = TRUE,
                          !.answer = _generate_answer(run.question, run.context)]
    /\ UNCHANGED <<documents, extracted, counters, config, resp, last_audit, ck, pg>>

NextSynthesis ==
    \/ ChooseGenerator
    \/ CallBackend
    \/ \E reply \in Replies : BackendReplied(reply)
    \/ RunRuleBased

SpecSynthesis == InitSynthesis /\ [][NextSynthesis]_vars

-----------------------------------------------------------------------------
(* Harness for search_relevant_chunks: the query is drawn at Init as a     *)
(* sequence of words and the text among the stored texts; RunSearch makes  *)
(* the call, and the call for the query without its words of at most two   *)
(* characters and its stop words (bare).                                    *)

MaxWords == 3

QueryWords  == {<<"w","h","a","t">>, <<"i","s">>, <<"t","h","e">>, <<"l","i","a","b","i","l","i","t","y">>, <<"l","a","w">>}
SearchTexts == {"renewal", "long", "short"}

Queries == UNION {[1..n -> QueryWords] : n \in 1..MaxWords}

\* the query without the words that are to be discarded
BareWords(words) == SelectSeq(words, LAMBDA w : Len(w) > 2 /\ w \notin stop_words)

InitSearch ==
    /\ ApiUnused
    /\ ck = NoCall
    /\ pg = NoCall
    /\ \E words \in Queries, name \in SearchTexts :
          run = [called |-> FALSE, words |-> words, name |-> name]

RunSearch ==
    /\ ~run.called
    /\ run' = [called |-> TRUE, words |-> run.words, name |-> run.name,
               out  |-> search_relevant_chunks(join(<<" ">>, run.words), Text[run.name], 3),
               bare |-> search_relevant_chunks(join(<<" ">>, BareWords(run.words)),
                                               Text[run.name], 3)]
    /\ UNCHANGED <<documents, extracted, counters, config, resp, last_audit, ck, pg>>

NextSearch == RunSearch

SpecSearch == InitSearch /\ [][NextSearch]_vars

-----------------------------------------------------------------------------
(* Properties of the answers (Spec).                                        *)

\* a response of /ask or /ask/stream
IsAsk == resp.op \in {"ask", "ask_stream"}
\* ... that carries an answer
HasAnswer == IsAsk /\ resp.status = 200 /\ "answer" \in DOMAIN resp

\* the backend call failed: unreachable, timed out, HTTP error status, a malformed
\* response, an error reported by the provider
BackendFailed(reply) ==
    reply.kind \in {"connect_error", "timeout", "http_error", "empty_list", "error_object"}

\* C1: when a backend is configured and its call fails for any reason, the answer is
\* exactly what the rule-based extractor _generate_answer gives for the same question
\* and context.
C1_FallbackEqualsRuleBased ==
    (HasAnswer /\ resp.called /\ BackendFailed(resp.reply)) => resp.answer = resp.rule_based

\* the documents a request searches
Searched(request) ==
    Found(documents, IF request.document_ids.some THEN request.document_ids.v
                     ELSE list_documents(documents))

\* retrieval has given the request a context to answer from
ContextRetrieved(request) ==
    /\ Len(request.question) > 0
    /\ ~Prepared[request.question, Searched(request)].raised

\* C2: for every question and every retrieved context, whatever the backend does, the
\* request ends with an answer that is a non-empty string; no exception reaches the
\* caller.
C2_AnswerNeverEmpty ==
    (IsAsk /\ ContextRetrieved(resp.request)) => (HasAnswer /\ Len(resp.answer) > 0)

-----------------------------------------------------------------------------
(* Properties of chunk_text (SpecChunk).                                    *)

\* the truncation point
Trunc == Min2(Len(ck.text), MAX_TEXT_SIZE)
Covered(p) == \E i \in 1..Len(ck.out) : ck.out[i].start <= p /\ p < ck.out[i].end
StartsNonDecreasing ==
    \A i \in 1..(Len(ck.out) - 1) : ck.out[i].start <= ck.out[i + 1].start
LastEnd == IF Len(ck.out) = 0 THEN 0 ELSE ck.out[Len(ck.out)].end

\* C3 as stated: for 0 <= overlap < size the chunk starts are non-decreasing and the
\* chunks cover every position from 0 up to min(len(text), 500000).
C3_CoversToTruncation ==
    (ck.called /\ ck.overlap < ck.chunk_size) =>
        (StartsNonDecreasing /\ \A p \in 0..(Trunc - 1) : Covered(p))

\* C3 as the code has it: for 0 <= overlap < size the chunk starts are non-decreasing
\* and the chunks cover every position up to the end of the last chunk; that end is
\* the truncation point when the overlap is at most half the size and fewer than
\* max_chunks chunks were made.
C3_CoversToLastChunk ==
    (ck.called /\ ck.overlap < ck.chunk_size) =>
        /\ StartsNonDecreasing
        /\ \A p \in 0..(LastEnd - 1) : Covered(p)
        /\ (2 * ck.overlap <= ck.chunk_size /\ Len(ck.out) < max_chunks) => LastEnd = Trunc

\* chunk_text has run with 0 < overlap <= size / 2 and covered a text with several chunks
C3_Witness ==
    /\ ck.called
    /\ 0 < ck.overlap /\ 2 * ck.overlap <= ck.chunk_size
    /\ Len(ck.out) >= 3
    /\ LastEnd = Trunc

-----------------------------------------------------------------------------
(* Properties of retrieval, of audits and of the handlers (Spec).           *)

\* the terms of a question that score: longer than two characters, no stop words
ScoringTerms(question) == SelectSeq(TermsOf(question), LAMBDA t : t \notin stop_words)

\* the text holds one of the question's terms
TermInText == [question \in Questions, name \in TextNames |->
    \E i \in 1..Len(ScoringTerms(question)) :
        contains(lower(Text[name]), ScoringTerms(question)[i])]

NonIncreasing(scores) == \A i \in 1..(Len(scores) - 1) : scores[i] >= scores[i + 1]

\* C4: when a document searched holds one of the question's terms, the answer comes
\* with at least one citation and the chunks cited are in non-increasing order of score.
C4_CitationsForMatchingText ==
    (/\ IsAsk
     /\ Len(resp.request.question) > 0
     /\ \E i \in 1..Len(Searched(resp.request)) :
           TermInText[resp.request.question, Searched(resp.request)[i].name])
    => (HasAnswer /\ Len(resp.citations) > 0 /\ NonIncreasing(resp.scores))

\* the text of the document a response of /audit is about
AuditedText == get_document(documents, resp.document_id).v.name

\* C5: the audit of the text "--- Page 1 ---\nThis auto-renews with 10 days notice.\n
\* --- Page 2 ---\nGoverned by NY law." yields exactly one finding: of type
\* auto_renewal_short_notice, severity high, page 1.
C5_ExampleHasOneFinding ==
    (resp.op = "audit" /\ resp.status = 200 /\ AuditedText = "example") =>
        /\ Len(resp.findings) = 1
        /\ resp.findings[1].risk_type = "auto_renewal_short_notice"
        /\ resp.findings[1].severity = "high"
        /\ resp.findings[1].page = Some(1)

\* C6: an audit writes nothing to the document store or to the extracted-field store,
\* and an audit of the document audited just before, with no ingest or extract in
\* between, returns the same findings in the same order.
C6_AuditIdempotent ==
    /\ [][(resp = Idle /\ resp'.op = "audit") =>
             (documents' = documents /\ extracted' = extracted)]_vars
    /\ []((resp.op = "audit" /\ resp.status = 200 /\ resp.before.some) =>
             resp.findings = resp.before.v)

\* a document with findings has been audited a second time
C6_Witness ==
    /\ resp.op = "audit" /\ resp.status = 200
    /\ resp.before.some
    /\ Len(resp.findings) > 0

\* the request names a document that is not stored
NamesUnknown(document_ids) ==
    /\ document_ids.some
    /\ \E i \in 1..Len(document_ids.v) : ~get_document(documents, document_ids.v[i]).some

\* C7: a request with an empty question or an unknown document id is rejected with an
\* error response: by /ask and /ask/stream for both, by /audit for an unknown id.
C7_BadRequestsRejected ==
    /\ (IsAsk /\ (Len(resp.request.question) = 0 \/ NamesUnknown(resp.request.document_ids)))
           => resp.status \in {400, 404}
    /\ (resp.op = "audit" /\ ~get_document(documents, resp.document_id).some)
           => resp.status = 404

\* C10 as stated: every text_snippet has at most 200 characters.
C10_SnippetAtMost200 ==
    HasAnswer => \A i \in 1..Len(resp.citations) :
                     Len(resp.citations[i].text_snippet) <= snippet_chars

\* C10 as the code has it: a text_snippet is the chunk when that has at most 200
\* characters, and otherwise its first 200 characters and "...": at most 203.
C10_SnippetAtMost203 ==
    HasAnswer => \A i \in 1..Len(resp.citations) :
        LET c == resp.citations[i]
            chunk_chars == c.char_range[2] - c.char_range[1]
        IN  Len(c.text_snippet) =
                IF chunk_chars > snippet_chars THEN snippet_chars + 3 ELSE chunk_chars

\* an answer cites a chunk of more than 200 characters and one of fewer
C10_Witness ==
    /\ HasAnswer
    /\ \E i \in 1..Len(resp.citations) : Len(resp.citations[i].text_snippet) = snippet_chars + 3
    /\ \E i \in 1..Len(resp.citations) : Len(resp.citations[i].text_snippet) < snippet_chars

-----------------------------------------------------------------------------
(* Properties of get_page_from_position (SpecPage).                         *)

Offsets == 0..(Len(pg.text) + 1)

\* C8: get_page_from_position never raises, however the marker text is formed.
C8_PageNeverRaises ==
    pg.called => \A a \in Offsets : ~pg.pages[a].raised

\* C9: when the page markers of a text are well formed and in increasing order of page
\* number, the page of an offset never decreases as the offset grows.
C9_PageMonotonic ==
    (pg.called /\ MarkersIncreasing(pg.segs)) =>
        \A a, b \in Offsets :
            a <= b => (/\ ~pg.pages[a].raised /\ ~pg.pages[b].raised
                       /\ pg.pages[a].page <= pg.pages[b].page)

\* a text with two markers in increasing order has been indexed: its offsets lie on
\* three different pages
C9_Witness ==
    /\ pg.called /\ MarkersIncreasing(pg.segs)
    /\ Cardinality({pg.pages[a].page : a \in Offsets}) >= 3

-----------------------------------------------------------------------------
(* Requests that have no document to search (Spec).                         *)

\* the request names no document: an empty list of ids, or no list while storage is empty
NoDocuments(request) ==
    IF request.document_ids.some THEN Len(request.document_ids.v) = 0
    ELSE Len(documents) = 0

\* C12: when storage holds no documents, or the caller passes an empty list of ids, the
\* answer is "No documents available to answer the question." with no citations; nothing
\* is raised and no generation backend is called.
C12_NoDocumentsAnswer ==
    (IsAsk /\ Len(resp.request.question) > 0 /\ NoDocuments(resp.request)) =>
        /\ HasAnswer
        /\ resp.answer = "No documents available to answer the question."
        /\ resp.citations = <<>>
        /\ ~resp.called
        /\ resp.reply = NoReply

\* a question was asked of an empty list of ids while documents were stored, with a
\* backend configured
C12_Witness ==
    /\ HasAnswer
    /\ resp.request.document_ids = Some(<<>>)
    /\ Len(documents) > 0
    /\ UsesLlm(config) /\ CallsBackend(config)
    /\ resp.citations = <<>>

-----------------------------------------------------------------------------
(* Properties of the citations and of the whole-document pass (SpecAnswer). *)

\* the documents the call of the harness searches
RunFound ==
    Found(run.store, IF run.document_ids.some THEN run.document_ids.v
                     ELSE list_documents(run.store))

\* the call returned an answer
RunAnswered == run.called /\ ~run.out.raised

\* C11: for every question and every document_ids argument there are at most 3
\* citations, and at most 2 of them come from any one document.
C11_CitationCaps ==
    RunAnswered =>
        /\ Len(run.out.citations) <= 3
        /\ \A i \in 1..Len(run.out.citations) :
              Cardinality({j \in 1..Len(run.out.citations) :
                  run.out.citations[j].document_id = run.out.citations[i].document_id}) <= 2

\* the first pass retrieved no chunk from any requested document
NoneRetrieved ==
    /\ run.called
    /\ Len(IF run.document_ids.some THEN run.document_ids.v ELSE list_documents(run.store)) > 0
    /\ \A i \in 1..Len(RunFound) : Len(Retrieved[run.question, RunFound[i].name]) = 0

\* the requested documents of more than 100 characters
RunBig == {i \in 1..Len(RunFound) : Len(Text[RunFound[i].name]) > 100}

\* C13: when no chunk is retrieved from any requested document, the call does not raise;
\* if a requested document has more than 100 characters the only citation is the first
\* such document from offset 0 to at most 10,000, on page 1 with score 0.1; otherwise
\* the answer is the "couldn't find relevant information" text with no citations.
C13_WholeDocumentOrNotFound ==
    NoneRetrieved =>
        /\ ~run.out.raised
        /\ IF RunBig # {}
           THEN /\ Len(run.out.citations) = 1
                /\ \E i \in RunBig :
                     /\ \A j \in RunBig : i <= j
                     /\ run.out.citations[1].document_id = RunFound[i].document_id
                     /\ run.out.citations[1].char_range =
                            <<0, Min2(Len(Text[RunFound[i].name]), 10000)>>
                /\ run.out.citations[1].page = 1
                /\ run.out.scores = <<1>>
           ELSE /\ Len(run.out.citations) = 0
                /\ SubSeq(run.out.answer, 1, 40) = <<"I"," ","c","o","u","l","d","n","'","t"," ","f","i","n","d"," ","r","e","l","e","v","a","n","t"," ","i","n","f","o","r","m","a","t","i","o","n"," ","t","o"," ">>

\* the whole-document pass cut a document of more than 10,000 characters
C13_Witness ==
    /\ NoneRetrieved
    /\ Len(run.out.citations) = 1
    /\ run.out.citations[1].char_range = <<0, 10000>>
    /\ Len(Text[RunFound[1].name]) <= 100

-----------------------------------------------------------------------------
(* Properties of the rule-based extractor (SpecGenerate).                   *)

\* C14 as stated: for the question "What is the governing law?" and any context that
\* contains the sentence "Governed by the laws of New York", the answer of
\* _generate_answer contains "New York".
C14_AnswerNamesNewYork ==
    (run.called /\ contains(run.context, law_sentence)) => contains(run.out, <<"N","e","w"," ","Y","o","r","k">>)

\* the sentences of the context, as the extractor cuts them
ContextSentences == split_on(run.context, ".")

\* the sentences that hold a term of the question: what, the, governing, law?
WithTerm ==
    {i \in 1..Len(ContextSentences) :
        \E t \in {<<"w","h","a","t">>, <<"t","h","e">>, <<"g","o","v","e","r","n","i","n","g">>, <<"l","a","w","?">>} :
            contains(lower(ContextSentences[i]), t)}

\* where sentence i ends in the answer: the sentences with a term before it, stripped
\* and joined by ". "
RECURSIVE EndInAnswer(_)
EndInAnswer(i) ==
    IF i = 0 THEN 0
    ELSE IF i \notin WithTerm THEN EndInAnswer(i - 1)
    ELSE (IF \E j \in WithTerm : j < i THEN EndInAnswer(i - 1) + 2 ELSE 0)
         + Len(strip(ContextSentences[i]))

\* C14 as the code has it: the answer contains "New York" when the sentence is in one
\* of the first three sentences of the context that hold a term of the question, and
\* ends within the 500 characters the answer keeps.
C14_AnswerNamesNewYorkWithinLimits ==
    (/\ run.called
     /\ \E i \in WithTerm :
           /\ contains(ContextSentences[i], law_sentence)
           /\ Cardinality({j \in WithTerm : j < i}) < 3
           /\ EndInAnswer(i) <= 500)
    => contains(run.out, <<"N","e","w"," ","Y","o","r","k">>)

\* the sentence was the third with a term, after a long one, and the answer names New York
C14_Witness ==
    /\ run.called
    /\ Len(run.kinds) = 4
    /\ run.kinds[4] = 1
    /\ \E i \in 1..3 : run.kinds[i] = 3
    /\ \E i \in 1..3 : run.kinds[i] = 4
    /\ contains(run.out, <<"N","e","w"," ","Y","o","r","k">>)

-----------------------------------------------------------------------------
(* Properties of the findings (SpecAudit).                                  *)

\* the audit returned its findings
Audited == run.called /\ ~run.out.raised

\* the findings of the same text with no extracted fields stored: the pattern pass alone
PatternPass == run.plain.findings

\* the findings of one risk type
OfType(findings, risk_type) == SelectSeq(findings, LAMBDA f : f.risk_type = risk_type)

\* C15: the result is the findings of the pattern pass followed by those of the
\* structured-field pass, nothing deduplicated: the pattern-pass findings are the same
\* with and without stored fields, and a text with "unlimited liability" whose stored
\* fields have no liability cap has a finding of each pass for it.
C15_PassesConcatenated ==
    Audited =>
        /\ Len(run.out.findings) >= Len(PatternPass)
        /\ SubSeq(run.out.findings, 1, Len(PatternPass)) = PatternPass
        /\ \A i \in (Len(PatternPass) + 1)..Len(run.out.findings) :
              /\ run.extracted_fields.some
              /\ ~run.out.findings[i].char_range.some
        /\ (/\ run.extracted_fields.some
            /\ ~run.extracted_fields.v.liability_cap.some
            /\ contains(run.text, <<"u","n","l","i","m","i","t","e","d"," ","l","i","a","b","i","l","i","t","y">>))
           => Len(OfType(run.out.findings, "unlimited_liability"))
                  = Len(OfType(PatternPass, "unlimited_liability")) + 1
        /\ (/\ run.extracted_fields.some
            /\ \E i \in 1..Len(run.kinds) : run.kinds[i] = 2)
           => Len(OfType(run.out.findings, "auto_renewal_short_notice"))
                  = Len(OfType(PatternPass, "auto_renewal_short_notice")) + 1

\* a text with two clauses of unlimited liability and no cap was audited with its
\* fields stored: two findings of the pattern pass and one of the field pass
C15_Witness ==
    /\ Audited
    /\ run.extracted_fields.some
    /\ Len(OfType(PatternPass, "unlimited_liability")) = 2
    /\ Len(OfType(run.out.findings, "unlimited_liability")) = 3

\* C16: every finding has a risk type of the catalog with the severity the catalog fixes
\* for it; the findings of the structured-field pass have no char_range and no page;
\* those of the pattern pass have a char_range [start, end) with
\* 0 <= start < end <= len(text) and a page.
C16_FindingsWellFormed ==
    Audited =>
        /\ \A i \in 1..Len(run.out.findings) :
              \E k \in 1..Len(risk_patterns) :
                  /\ risk_patterns[k].name = run.out.findings[i].risk_type
                  /\ risk_patterns[k].severity = run.out.findings[i].severity
        /\ \A i \in (Len(PatternPass) + 1)..Len(run.out.findings) :
              /\ run.out.findings[i].char_range = None
              /\ run.out.findings[i].page = None
        /\ \A i \in 1..Len(PatternPass) :
              /\ run.out.findings[i].char_range.some
              /\ 0 <= run.out.findings[i].char_range.v[1]
              /\ run.out.findings[i].char_range.v[1] < run.out.findings[i].char_range.v[2]
              /\ run.out.findings[i].char_range.v[2] <= Len(run.text)
              /\ run.out.findings[i].page.some

-----------------------------------------------------------------------------
(* Properties of the limits of chunk_text (SpecChunk).                      *)

\* C17: when the text exceeds the cap of 500,000 characters, what lies beyond the cap is
\* dropped and an explicit truncation marker appears in the chunks returned.
C17_TruncationMarked ==
    (ck.called /\ Len(ck.text) > MAX_TEXT_SIZE) =>
        /\ \A i \in 1..Len(ck.out) : ck.out[i].end <= MAX_TEXT_SIZE
        /\ \E i \in 1..Len(ck.out) : contains(ck.out[i].text, <<"t","r","u","n","c","a","t","e","d">>)

-----------------------------------------------------------------------------
(* Properties of the generation of an answer (SpecSynthesis).               *)

LoopAfter(n) ==
    ChunkLoop(Slice(ck.text, 0, MAX_TEXT_SIZE), ck.chunk_size, ck.overlap,
              [chunks |-> <<>>, start |-> 0, chunk_count |-> 0, done |-> FALSE], n)

\* C19: for every text, every size >= 1 and every overlap >= 0 the loop of chunk_text
\* ends, after one pass for each chunk returned and at most one more; the start of each
\* chunk is greater than the start of the chunk before it; at most 1000 chunks are
\* returned and none extends past character 500,000.
C19_ChunkingBounded ==
    ck.called =>
        /\ LoopAfter(Len(ck.out) + 1).done
        /\ \A i \in 1..(Len(ck.out) - 1) : ck.out[i].start < ck.out[i + 1].start
        /\ Len(ck.out) <= 1000
        /\ \A i \in 1..Len(ck.out) : ck.out[i].end <= 500000

\* the segmentation was aborted: the overlap is no less than the chunk made, and the
\* text goes on after it
C19_Witness ==
    /\ ck.called
    /\ ck.overlap >= ck.chunk_size
    /\ Len(ck.out) = 1
    /\ ck.out[1].end < Len(ck.text)

-----------------------------------------------------------------------------
(* Properties of the scores (SpecSearch).                                   *)

\* the chunks of a result by their start, each with its score
ScoreOf(chunks) == {<<chunks[i].start, chunks[i].score>> : i \in 1..Len(chunks)}

\* C20: words of at most two characters and the stop words add nothing to the score of
\* a chunk: the query and the query without them give every chunk the same score.
C20_DiscardedWordsScoreNothing ==
    run.called => ScoreOf(run.out) = ScoreOf(run.bare)

-----------------------------------------------------------------------------
(* Properties of retrieval when nothing matches (Spec).                     *)

\* the scorer gave chunks of the documents searched, and none of them a score above zero
NoChunkScores(request) ==
    LET found == Searched(request)
        Of(i) == Retrieved[request.question, found[i].name]
    IN  /\ \E i \in 1..Len(found) : Len(Of(i)) > 0
        /\ \A i \in 1..Len(found) : \A j \in 1..Len(Of(i)) : Of(i)[j].score = 0

\* C21: when no chunk of the requested documents scores above zero for the question,
\* no zero-score chunk is among the results: the one result is the whole-document
\* chunk, from offset 0 and with the nominal score 0.1.
C21_ZeroScoresFallBack ==
    (HasAnswer /\ NoChunkScores(resp.request)) =>
        /\ resp.scores = <<1>>
        /\ Len(resp.citations) = 1
        /\ resp.citations[1].char_range[1] = 0

-----------------------------------------------------------------------------
(* Properties of the chunks left out of the scoring (SpecSearch).           *)

\* C22: a chunk whose trimmed length is under 50 characters is never returned by
\* search_relevant_chunks, whatever the query and the text.
C22_ShortChunksNotReturned ==
    run.called =>
        \A i \in 1..Len(run.out) : Len(strip(run.out[i].text)) >= min_chunk_chars

-----------------------------------------------------------------------------
(* Properties of the context (SpecAnswer).                                  *)

\* the texts of the top-ranked chunks in rank order, read from the stored documents at
\* the ranges cited
CitedTexts ==
    Map(run.out.citations, LAMBDA c :
        Slice(Text[get_document(run.store, c.document_id).v.name],
              c.char_range[1], c.char_range[2]))

\* ... joined as answer_question joins them
JoinedTexts == join(<<"\n","\n">>, CitedTexts)

\* the call answered from chunks
RunCited == RunAnswered /\ Len(run.out.citations) > 0

\* C23 as stated: the context handed to the generator never exceeds 2000 characters; it
\* is the top-ranked chunks' texts joined in rank order, and their first 2000 characters
\* whenever they are longer.
C23_ContextIsJoinedTextsCut ==
    RunCited =>
        /\ Len(run.out.context) <= 2000
        /\ run.out.context = Slice(JoinedTexts, 0, 2000)

\* C23 as the code has it: the context never exceeds 2000 characters; it is the
\* top-ranked chunks' texts joined in rank order when these have at most 2000
\* characters, and otherwise the first 2000 characters of the first chunk alone.
C23_ContextIsFirstChunkWhenLong ==
    RunCited =>
        /\ Len(run.out.context) <= 2000
        /\ Len(JoinedTexts) <= 2000 => run.out.context = JoinedTexts
        /\ Len(JoinedTexts) > 2000 => run.out.context = Slice(CitedTexts[1], 0, 2000)

\* three chunks were cited whose joined texts are longer than 2000 characters, and the
\* context is shorter than 2000 characters
C23_Witness ==
    /\ RunCited
    /\ Len(run.out.citations) = 3
    /\ Len(JoinedTexts) > 2000
    /\ Len(run.out.context) < 2000
    /\ run.out.context = CitedTexts[1]

-----------------------------------------------------------------------------
(* Properties of the order of the rules (SpecRules).                        *)

\* the rules among (a) to (d) that apply to a question of the harness: (a) what is/does
\* and a key term, (b) when or date, (c) who or party, (d) how much, amount or price
RulesOf(question) ==
    CASE question = <<"w","h","a","t"," ","i","s"," ","l","i","a","b","i","l","i","t","y">>            -> {"a"}
      [] question = <<"W","h","e","n"," ","i","s"," ","t","h","e"," ","a","m","o","u","n","t"," ","d","u","e","?">>      -> {"b", "d"}
      [] question = <<"W","h","o"," ","p","a","y","s",","," ","a","n","d"," ","w","h","e","n","?">>          -> {"b", "c"}
      [] question = <<"w","h","a","t"," ","d","o","e","s"," ","t","e","r","m","i","n","a","t","i","o","n"," ","c","o","s","t">>   -> {"a"}
      [] question = <<"w","h","a","t"," ","i","s"," ","t","h","e"," ","l","i","a","b","i","l","i","t","y"," ","a","m","o","u","n","t">> -> {"a", "d"}

\* the kinds of sentence that hold the key term of the question
KeyTermKinds(question) ==
    IF question \in {<<"w","h","a","t"," ","i","s"," ","l","i","a","b","i","l","i","t","y">>, <<"w","h","a","t"," ","i","s"," ","t","h","e"," ","l","i","a","b","i","l","i","t","y"," ","a","m","o","u","n","t">>} THEN {5} ELSE {}

\* the kinds of sentence that hold a word of more than two characters of the question
\* ("liability", "the" or "and")
TokenKinds(question) ==
    CASE question = <<"w","h","a","t"," ","i","s"," ","l","i","a","b","i","l","i","t","y">>            -> {5}
      [] question = <<"W","h","e","n"," ","i","s"," ","t","h","e"," ","a","m","o","u","n","t"," ","d","u","e","?">>      -> {5, 8}
      [] question = <<"W","h","o"," ","p","a","y","s",","," ","a","n","d"," ","w","h","e","n","?">>          -> {7}
      [] question = <<"w","h","a","t"," ","d","o","e","s"," ","t","e","r","m","i","n","a","t","i","o","n"," ","c","o","s","t">>   -> {}
      [] question = <<"w","h","a","t"," ","i","s"," ","t","h","e"," ","l","i","a","b","i","l","i","t","y"," ","a","m","o","u","n","t">> -> {5, 8}

\* the sentences of the context that are of one of the kinds K, in order
OfKinds(K) == Map(SelectSeq(run.kinds, LAMBDA k : k \in K), SentenceText)

\* rule r applies to the question and the context holds what it looks for
Finds(r) ==
    CASE r = "a" -> "a" \in RulesOf(run.question) /\ Len(OfKinds(KeyTermKinds(run.question))) > 0
      [] r = "b" -> "b" \in RulesOf(run.question) /\ Len(OfKinds({6})) > 0
      [] r = "c" -> "c" \in RulesOf(run.question) /\ Len(OfKinds({7})) > 0
      [] r = "d" -> "d" \in RulesOf(run.question) /\ Len(OfKinds({8})) > 0
      [] r = "e" -> Len(OfKinds(TokenKinds(run.question))) > 0
      [] r = "f" -> TRUE

RuleOrder == <<"a", "b", "c", "d", "e", "f">>

\* the first rule in the order that applies and finds something
FirstRule == RuleOrder[SetMin({i \in 1..Len(RuleOrder) : Finds(RuleOrder[i])})]

StartsWith(s, prefix) == Len(s) >= Len(prefix) /\ SubSeq(s, 1, Len(prefix)) = prefix

\* what rule r returns for the question and the context of the harness
IsAnswerOf(r, answer) ==
    CASE r = "a" -> answer = join(<<"."," ">>, Slice(OfKinds(KeyTermKinds(run.question)), 0, 2)) \o <<".">>
      [] r = "b" -> answer = <<"B","a","s","e","d"," ","o","n"," ","t","h","e"," ","d","o","c","u","m","e","n","t",","," ","t","h","e"," ","r","e","l","e","v","a","n","t"," ","d","a","t","e"," ","i","s",":"," ","J","a","n","u","a","r","y"," ","5",","," ","2","0","2","4">>
      [] r = "c" -> StartsWith(answer, <<"T","h","e"," ","p","a","r","t","i","e","s"," ","m","e","n","t","i","o","n","e","d"," ","a","r","e",":"," ">>)
      [] r = "d" -> answer = <<"B","a","s","e","d"," ","o","n"," ","t","h","e"," ","d","o","c","u","m","e","n","t",","," ","t","h","e"," ","a","m","o","u","n","t"," ","i","s",":"," ","$","5",",","0","0","0">>
      [] r = "e" -> answer = join(<<"."," ">>, Slice(OfKinds(TokenKinds(run.question)), 0, 3)) \o <<".">>
      [] r = "f" -> answer = <<"B","a","s","e","d"," ","o","n"," ","t","h","e"," ","d","o","c","u","m","e","n","t",":"," ">> \o Slice(run.context, 0, 400) \o <<".",".",".">>

\* C24: _generate_answer returns the result of the first rule, in the order (a) key
\* term, (b) date, (c) parties, (d) amount, (e) sentences with a word of the question,
\* (f) prefix of the context, that applies to the question and finds something in the
\* context; a rule that applies and finds nothing is passed over, and (f) answers only
\* when no earlier rule found anything.
C24_FirstRuleThatFindsAnswers ==
    run.called => IsAnswerOf(FirstRule, run.out)

\* rule (b) applied to the question and found no date, rule (c) did not apply although
\* the context names two parties, and rule (d) answered
C24_Witness ==
    /\ run.called
    /\ run.question = <<"W","h","e","n"," ","i","s"," ","t","h","e"," ","a","m","o","u","n","t"," ","d","u","e","?">>
    /\ run.kinds = <<7, 8, 5>>
    /\ run.out = <<"B","a","s","e","d"," ","o","n"," ","t","h","e"," ","d","o","c","u","m","e","n","t",","," ","t","h","e"," ","a","m","o","u","n","t"," ","i","s",":"," ","$","5",",","0","0","0">>

-----------------------------------------------------------------------------
(* Properties of the streamed answers (Spec).                               *)

\* a response of /ask/stream that began to stream
IsStream == resp.op = "ask_stream" /\ resp.status = 200

\* C25: a stream carries the words of the answer as token events and then ends with the
\* one done event that carries the citations.
C25_StreamEndsWithDone ==
    IsStream =>
        /\ ~resp.broken
        /\ "citations" \in DOMAIN resp

-----------------------------------------------------------------------------
(* Properties of calls that run at the same time (SpecConcurrent).          *)

\* what call c returns when it runs alone on the store, the backend giving the reply
\* that the call was given
Alone(c) ==
    IF run[c].op = "answer"
    THEN answer_question(config, documents, run[c].question, run[c].document_ids,
                         run[c].reply)
    ELSE IF get_document(documents, run[c].document_id).some
    THEN Audits[<<run[c].document_id,
                  get_document(documents, run[c].document_id).v.name,
                  extracted[IndexOf(run[c].document_id)]>>]
    ELSE audit_document(run[c].document_id, None, None)

\* C26: calls of answer_question and audit_document that run at the same time, in any
\* interleaving of their reads of the store and their waits for the backend, each
\* return what they return when run alone, and none of them changes the store.
C26_CallsDoNotInterfere ==
    /\ [](\A c \in DOMAIN run : run[c].pc = "done" => run[c].out.v = Alone(c))
    /\ [][documents' = documents /\ extracted' = extracted]_vars

\* an audit and a question over the same document have both returned, each having run
\* while the other was in progress, the question after a wait for the backend
C26_Witness ==
    /\ run[1].op = "audit" /\ run[2].op = "answer"
    /\ run[1].pc = "done" /\ run[2].pc = "done"
    /\ run[1].overlapped /\ run[2].overlapped
    /\ run[1].document_id = DocId(1)
    /\ run[2].document_ids = Some(<<DocId(1)>>)
    /\ run[2].out.v.called
    /\ Len(run[1].out.v.findings) > 0

-----------------------------------------------------------------------------
(* Properties of consecutive chunks (SpecChunk).                            *)

\* C27: consecutive chunks never nest, each ending strictly after the chunk before it
\* ends, and a text no longer than the chunk size yields exactly one chunk; stated for
\* the texts that are not empty and the overlaps below the chunk size.
C27_ChunksNeverNest ==
    (ck.called /\ Len(ck.text) > 0 /\ ck.overlap < ck.chunk_size) =>
        /\ \A i \in 1..(Len(ck.out) - 1) : ck.out[i + 1].end > ck.out[i].end
        /\ Len(ck.text) <= ck.chunk_size => Len(ck.out) = 1

=============================================================================
